---- MODULE Spec2Model ----
(***************************************************************************)
(* A model of the Google Maps lead scraper (src/main.py and                *)
(* src/scraper_adapter.py):                                                *)
(*   - GoogleMapsReviewScraper.process_csv      (Reviews stage, SpecCsv)   *)
(*   - GoogleMapsReviewScraper.search_businesses (pagination, SpecSearch)  *)
(*   - GoogleMapsReviewScraper.process_search   (append merge, SpecAppend) *)
(*   - enrich_with_website_data and generate_emails of both files, and     *)
(*     enrich_with_reviews of the adapter (SpecStages)                     *)
(*   - the enrichment flows of src/app.py over these stages (SpecDriver)   *)
(*   - a second process_csv or process_search call on the file the first   *)
(*     one wrote (SpecCsvTwice, SpecAppendTwice)                           *)
(*   - the timeout each remote call is made with (SpecCalls)               *)
(*   - find_column (SpecFind), is_valid and _has_value (SpecComplete),     *)
(*     search_place (SpecFindId), each called on its own                   *)
(* Text is a sequence of one-character strings, so that strip(), lower(),  *)
(* startswith() and re.sub(r'\s+', ' ', ..) are computed and not assumed.  *)
(***************************************************************************)
EXTENDS Integers, Sequences, FiniteSets, TLC

\* ------------------------------------------------------------------ bounds

\* Rows of the input table of process_csv.
MaxRows == 2

\* Page requests of one search_businesses call that are followed.
MaxRequests == 4

\* Rows of the existing file and rows of the search result in process_search.
MaxExisting == 2
MaxNew == 2

\* Rows of a table on which a second process_csv run is explored.
MaxRerunRows == 1

\* ------------------------------------------------------------------- text

\* Characters str.strip() and the regex class \s treat as whitespace.
IsSpace(c) == c \in {" ", "\t", "\n"}

RECURSIVE LStrip(_)
LStrip(s) == IF s = <<>> THEN s
             ELSE IF IsSpace(Head(s)) THEN LStrip(Tail(s)) ELSE s

RECURSIVE RStrip(_)
RStrip(s) == IF s = <<>> THEN s
             ELSE IF IsSpace(s[Len(s)]) THEN RStrip(SubSeq(s, 1, Len(s) - 1)) ELSE s

\* str.strip()
Strip(s) == RStrip(LStrip(s))

\* A Python str as the sequence of its characters.
Chars(str) == [k \in 1..Len(str) |-> SubSeq(str, k, k)]

\* Column headers of the program.
HCompanyName == Chars("Company Name")
HCompanyAddress == Chars("Company Address")
HRating == Chars("Google Review Rating")
HCount == Chars("Google Review Count")
HMapsUrl == Chars("Google Maps URL")
HBusinessName == Chars("Business Name")
HBusinessAddress == Chars("Business Address")

\* str.lower() on one character.
LowerChar(c) ==
    CASE c = "A" -> "a"
      [] c = "B" -> "b"
      [] c = "C" -> "c"
      [] c = "D" -> "d"
      [] c = "E" -> "e"
      [] c = "F" -> "f"
      [] c = "G" -> "g"
      [] c = "H" -> "h"
      [] c = "I" -> "i"
      [] c = "J" -> "j"
      [] c = "K" -> "k"
      [] c = "L" -> "l"
      [] c = "M" -> "m"
      [] c = "N" -> "n"
      [] c = "O" -> "o"
      [] c = "P" -> "p"
      [] c = "Q" -> "q"
      [] c = "R" -> "r"
      [] c = "S" -> "s"
      [] c = "T" -> "t"
      [] c = "U" -> "u"
      [] c = "V" -> "v"
      [] c = "W" -> "w"
      [] c = "X" -> "x"
      [] c = "Y" -> "y"
      [] c = "Z" -> "z"
      [] OTHER -> c

\* str.lower()
Lower(s) == [k \in 1..Len(s) |-> LowerChar(s[k])]

\* str.replace('_', ' ').replace('-', ' ')
ReplacePunct(s) == [k \in 1..Len(s) |-> IF s[k] \in {"_", "-"} THEN " " ELSE s[k]]

\* re.sub(r'\s+', ' ', s): every run of whitespace becomes one space.
RECURSIVE CollapseSpace(_)
CollapseSpace(s) ==
    IF s = <<>> THEN s
    ELSE IF IsSpace(Head(s))
    THEN <<" ">> \o CollapseSpace(LStrip(s))
    ELSE <<Head(s)>> \o CollapseSpace(Tail(s))

\* The header normalization of find_column.
NormHeader(h) == Strip(ReplacePunct(Lower(h)))

\* find_column: the position of the first column whose normalized header
\* equals the normalized name, 0 for None.
find_column(cols, column_name) ==
    LET hits == {k \in 1..Len(cols) : NormHeader(cols[k]) = NormHeader(column_name)}
    IN IF hits = {} THEN 0 ELSE CHOOSE k \in hits : \A m \in hits : k <= m

\* 'a or b' on two find_column results.
OrElse(a, b) == IF a # 0 THEN a ELSE b

\* ----------------------------------------------------------- field values

\* A cell of the DataFrame: missing (None / NaN), a number, or text.
NaN == [k |-> "nan", n |-> 0, s |-> <<>>]
Num(x) == [k |-> "num", n |-> x, s |-> <<>>]
Txt(t) == [k |-> "str", n |-> 0, s |-> t]

\* pd.isna(val)
IsNa(v) == v.k = "nan"

NotFound == Chars("Not Found")

\* to_csv then read_csv of a cell: '' is written as an empty field and read
\* back as NaN; other text and numbers come back as they were.
CsvCell(v) == IF v.k = "str" /\ v.s = <<>> THEN NaN ELSE v

\* str(val) for a cell that is not missing: a number prints as non-blank text.
StrOf(v) == IF v.k = "str" THEN v.s ELSE <<"#">>

\* _has_value of scraper_adapter.py
has_value(value) ==
    IF IsNa(value) THEN FALSE
    ELSE IF value.k = "str" /\ Strip(value.s) = <<>> THEN FALSE
    ELSE TRUE

\* --------------------------------------------------------- remote responses

\* What one HTTP exchange gives the client: an exception raised by the
\* transport (or by response.json()), or a status with a decoded body; keyed
\* tells whether the body has a 'places' key, msg is the body's error.message
\* ("" when it has none).
Exc(m) == [kind |-> "exc", status |-> 0, keyed |-> FALSE, places |-> <<>>, msg |-> m,
           rating |-> NaN, count |-> NaN, url |-> NaN]
Http(st, keyed, ps, m) ==
    [kind |-> "http", status |-> st, keyed |-> keyed, places |-> ps, msg |-> m,
     rating |-> NaN, count |-> NaN, url |-> NaN]
Found(ps) == Http(200, TRUE, ps, "")
ApiErr(st, m) == Http(st, FALSE, <<>>, m)
Details(r, c, u) == [kind |-> "http", status |-> 200, keyed |-> FALSE, places |-> <<>>,
                     msg |-> "", rating |-> r, count |-> c, url |-> u]

\* Answers of the text-search endpoint to search_place.
FindResponses ==
    { Found(<<"p1", "p2">>), Found(<<>>),
      ApiErr(403, "quota"), Exc("timeout") }

\* Answers of the place-details endpoint (any field of the body may be absent).
DetailResponses ==
    { Details(Num(5), Num(9), Txt(Chars("ub"))), Details(NaN, NaN, Txt(Chars("ub"))),
      Details(Num(5), Num(9), NaN),
      ApiErr(404, "gone"), Exc("reset") }

\* Error messages: <<>> is None, otherwise <<prefix, detail>>.
NoError == <<>>
NotFoundMsg == <<"Business not found on Google Maps", "">>
MissingMsg == <<"Missing business name or address", "">>

\* result.get('error', {}).get('message', f"HTTP {response.status_code}")
ErrorMessage(resp) == IF resp.msg = "" THEN "HTTP " \o ToString(resp.status) ELSE resp.msg

\* search_place without the not-found branch: an empty result is an API error.
search_place_no_notfound(resp) ==
    IF resp.kind = "exc"
    THEN [place_id |-> "", error |-> <<"Exception during search", resp.msg>>]
    ELSE IF resp.status = 200 /\ resp.keyed /\ resp.places # <<>>
    THEN [place_id |-> resp.places[1], error |-> NoError]
    ELSE [place_id |-> "", error |-> <<"API error", ErrorMessage(resp)>>]

\* search_place: (place_id, error), "" standing for the None id
search_place(resp) ==
    IF resp.kind = "exc"
    THEN [place_id |-> "", error |-> <<"Exception during search", resp.msg>>]
    ELSE IF resp.status = 200 /\ resp.keyed /\ resp.places # <<>>
    THEN [place_id |-> resp.places[1], error |-> NoError]
    ELSE IF resp.status = 200
    THEN [place_id |-> "", error |-> NotFoundMsg]
    ELSE [place_id |-> "", error |-> <<"API error", ErrorMessage(resp)>>]

\* get_place_details that does not read googleMapsUri from the answer.
get_place_details_no_url(resp) ==
    IF resp.kind = "exc"
    THEN [rating |-> NaN, review_count |-> NaN, maps_url |-> NaN,
          error |-> <<"Exception getting details", resp.msg>>]
    ELSE IF resp.status = 200
    THEN [rating |-> resp.rating, review_count |-> resp.count,
          maps_url |-> NaN, error |-> NoError]
    ELSE [rating |-> NaN, review_count |-> NaN, maps_url |-> NaN,
          error |-> <<"API error", ErrorMessage(resp)>>]

\* get_place_details: (rating, review_count, maps_url, error)
get_place_details(resp) ==
    IF resp.kind = "exc"
    THEN [rating |-> NaN, review_count |-> NaN, maps_url |-> NaN,
          error |-> <<"Exception getting details", resp.msg>>]
    ELSE IF resp.status = 200
    THEN [rating |-> resp.rating, review_count |-> resp.count,
          maps_url |-> resp.url, error |-> NoError]
    ELSE [rating |-> NaN, review_count |-> NaN, maps_url |-> NaN,
          error |-> <<"API error", ErrorMessage(resp)>>]

\* One entry of the call log of a row: the operation and the answer it got.
Call(op, resp) == [op |-> op, resp |-> resp]
Sleep == [op |-> "sleep", resp |-> Exc("")]

\* enrich_business: delay, find the id, then the full detail request.
enrich_business(findResp, detResp) ==
    LET f == search_place(findResp)
        d == get_place_details(detResp)
    IN IF f.error # NoError
       THEN [rating |-> NaN, review_count |-> NaN, maps_url |-> NaN,
             error |-> f.error, calls |-> <<Sleep, Call("find", findResp)>>]
       ELSE IF d.error # NoError
       THEN [rating |-> NaN, review_count |-> NaN, maps_url |-> NaN,
             error |-> d.error,
             calls |-> <<Sleep, Call("find", findResp), Call("details", detResp)>>]
       ELSE [rating |-> d.rating, review_count |-> d.review_count,
             maps_url |-> d.maps_url, error |-> NoError,
             calls |-> <<Sleep, Call("find", findResp), Call("details", detResp)>>]

\* get_place_url_only asking the detail endpoint for the full field mask.
get_place_url_only_full_mask(findResp, detResp) ==
    LET f == search_place(findResp)
        d == get_place_details(detResp)
    IN IF f.error # NoError
       THEN [maps_url |-> NaN, error |-> f.error,
             calls |-> <<Sleep, Call("find", findResp)>>]
       ELSE [maps_url |-> d.maps_url, error |-> d.error,
             calls |-> <<Sleep, Call("find", findResp), Call("details", detResp)>>]

\* get_place_url_only: delay, find the id, then a detail request whose field
\* mask is googleMapsUri alone.
get_place_url_only(findResp, detResp) ==
    LET f == search_place(findResp)
    IN IF f.error # NoError
       THEN [maps_url |-> NaN, error |-> f.error,
             calls |-> <<Sleep, Call("find", findResp)>>]
       ELSE IF detResp.kind = "exc"
       THEN [maps_url |-> NaN, error |-> <<"Exception getting URL", detResp.msg>>,
             calls |-> <<Sleep, Call("find", findResp), Call("url", detResp)>>]
       ELSE IF detResp.status = 200
       THEN [maps_url |-> detResp.url, error |-> NoError,
             calls |-> <<Sleep, Call("find", findResp), Call("url", detResp)>>]
       ELSE [maps_url |-> NaN, error |-> <<"API error", ErrorMessage(detResp)>>,
             calls |-> <<Sleep, Call("find", findResp), Call("url", detResp)>>]

\* ------------------------------------------------------------- process_csv

VARIABLES
    pc,                 \* where the run of the modelled operation stands
    df,                 \* the DataFrame: a sequence of rows
    columns,            \* df.columns: the headers of the table
    orig,               \* the table as it was read (history, never written by the code)
    orig_columns,       \* the headers as they were read (history)
    first,              \* in a second run over the saved output: what the first run did (history)
    idx,                \* 1-based position of the next row of the loop
    error_log,          \* self.error_log
    rowcalls,           \* per handled row, the delays and requests it caused (history)
    skipped_complete, url_only_fetched, full_fetched,
    saved,              \* the table written by df.to_csv: its headers and its rows
    audit,              \* the rows written to error_log.csv
    writes,             \* the files written so far, in order (history)
    \* search_businesses
    max_results,        \* the caller's limit
    businesses,         \* the rows collected so far
    data,               \* the request body: pageSize and pageToken ("" when not set)
    pagelog,            \* the answers received, one per page request (history)
    sleeps,             \* the rate-limit delays taken (history)
    \* process_search
    file,               \* the file at output_path: whether it exists, and its table
    append,             \* the append argument
    new_rows,           \* DataFrame(businesses) of the call (history once it returned)
    existing_df,        \* the table read from the file in append mode (history)
    strategy,           \* the dedupe branch the call took (history)
    \* enrich_with_website_data and generate_emails
    impl,               \* whose stage runs: "main" (main.py) or "adapter" (scraper_adapter.py)
    stage,              \* "web" or "email"
    leads,              \* the DataFrame of the stage: a sequence of lead rows
    lrow,               \* 1-based position of the next row of the stage's loop
    pass,               \* "first", or "later" for a second run over the resulting table
    stagelog,           \* what the stage did for each row it handled (history)
    progress,           \* the (current, total) pairs given to progress_callback (history)
    searches,           \* the calls made to the scraper's search method (history)
    enabled,            \* the stages ticked in the UI, for a run of its enrichment flow
    \* functions checked on their own (find_column, is_valid, _has_value, search_place)
    args,               \* the arguments of the call
    result,             \* what the call returned
    \* remote calls and their timeouts
    inflight,           \* the remote call that has not returned yet, with its timeout
    waited,             \* seconds it has been waiting for the answer
    returned            \* how the calls made so far ended (history)

csvVars == <<df, columns, orig, orig_columns, first, idx, error_log, rowcalls,
             skipped_complete, url_only_fetched, full_fetched, saved, audit, writes>>

searchVars == <<max_results, businesses, data, pagelog, sleeps>>

appendVars == <<file, append, new_rows, existing_df, strategy>>

watchVars == <<progress, searches>>

stageVars == <<impl, stage, leads, lrow, pass, stagelog, watchVars, enabled>>

pureVars == <<args, result>>

callVars == <<inflight, waited, returned>>

vars == <<pc, csvVars, searchVars, appendVars, stageVars, pureVars, callVars>>

\* No table: what a file that was never written holds.
NoTable == [cols |-> <<>>, rows |-> <<>>]

\* The state of an operation that is not running in the specification at hand.
CsvIdle ==
    /\ df = <<>> /\ columns = <<>> /\ orig = <<>> /\ orig_columns = <<>>
    /\ first = <<>> /\ idx = 1
    /\ error_log = <<>> /\ rowcalls = <<>>
    /\ skipped_complete = 0 /\ url_only_fetched = 0 /\ full_fetched = 0
    /\ saved = NoTable /\ audit = <<>> /\ writes = <<>>

SearchIdle ==
    /\ max_results = 0 /\ businesses = <<>>
    /\ data = [pageSize |-> 0, pageToken |-> ""]
    /\ pagelog = <<>> /\ sleeps = 0

AppendIdle ==
    /\ file = [exists |-> FALSE, table |-> NoTable]
    /\ append = FALSE /\ new_rows = <<>>
    /\ existing_df = NoTable /\ strategy = ""

StagesIdle ==
    /\ impl = "" /\ stage = "" /\ leads = <<>> /\ lrow = 1
    /\ pass = "" /\ stagelog = <<>>
    /\ progress = <<>> /\ searches = <<>> /\ enabled = {}

PureIdle == args = <<>> /\ result = <<>>

\* No remote call in flight.
NoCall == [site |-> "", timeout |-> <<>>]

CallsIdle == inflight = NoCall /\ waited = 0 /\ returned = <<>>

\* Rows a CSV file can hold.  read_csv never yields '' (an empty cell reads as
\* NaN); whitespace-only text and 'Not Found' are kept as text.
Reviews ==
    { <<Num(0), Num(7), Txt(Chars("ua"))>>,          \* all three present (rating zero)
      <<Num(4), Num(7), Txt(Chars("  "))>>,         \* URL blank
      <<Txt(NotFound), Num(7), Txt(Chars("ua"))>>,   \* rating is the placeholder
      <<NaN, NaN, NaN>> }                     \* nothing yet
RowSamples ==
    { [name |-> d[1], addr |-> d[2], rating |-> r[1], count |-> r[2], url |-> r[3]] :
        d \in { <<Txt(Chars("Al")), Txt(Chars("1 M"))>>, <<Txt(Chars("  ")), Txt(Chars("1 M"))>>,
                <<Txt(Chars("Al")), NaN>>, <<NaN, Txt(Chars("1 M"))>>, <<NaN, NaN>> },
        r \in Reviews }

\* The sequences of at most k elements of S.
SeqsUpTo(S, k) == UNION { [1..m -> S] : m \in 0..k }

\* is_valid written as a truthiness test, which takes the number 0 for missing.
is_valid_falsy(val) ==
    IF IsNa(val) \/ val = Num(0) THEN FALSE
    ELSE IF val.k = "str" /\ Strip(val.s) \in {<<>>, NotFound} THEN FALSE
    ELSE TRUE

\* is_valid (nested in process_csv)
is_valid(val) ==
    IF IsNa(val) THEN FALSE
    ELSE IF val.k = "str" /\ Strip(val.s) \in {<<>>, NotFound} THEN FALSE
    ELSE TRUE

\* The guard of lines 670-671 without the blank-text tests.
MissingIdentNaOnly(row) == IsNa(row.name) \/ IsNa(row.addr)

\* The guard of lines 670-671: either identifying field is NaN or blank.
MissingIdent(row) ==
    \/ IsNa(row.name) \/ Strip(StrOf(row.name)) = <<>>
    \/ IsNa(row.addr) \/ Strip(StrOf(row.addr)) = <<>>

\* The dict with the 1-based data position as its row ordinal.
ErrorRecordNoHeader(i, row, err) ==
    [row |-> i, business_name |-> row.name, business_address |-> row.addr,
     error |-> err]

\* The dict appended to error_log ('row': idx + 2 for the 0-based idx).
ErrorRecord(i, row, err) ==
    [row |-> i + 1, business_name |-> row.name, business_address |-> row.addr,
     error |-> err]

\* The body of the row loop with the completeness test placed before the
\* test of the identifying fields.
RowBodyCompleteFirst(row, i, findResp, detResp) ==
    LET has_rating == is_valid(row.rating)
        has_count == is_valid(row.count)
        has_url == is_valid(row.url)
        u == get_place_url_only(findResp, detResp)
        e == enrich_business(findResp, detResp)
    IN IF has_rating /\ has_count /\ has_url
       THEN [row |-> row, errs |-> <<>>, calls |-> <<>>, branch |-> "complete"]
       ELSE IF MissingIdent(row)
       THEN [row |-> row, errs |-> <<ErrorRecord(i, row, MissingMsg)>>,
             calls |-> <<>>, branch |-> "missing"]
       ELSE IF has_rating /\ has_count /\ ~has_url
       THEN [row |-> IF u.error # NoError THEN row ELSE [row EXCEPT !.url = u.maps_url],
             errs |-> IF u.error # NoError THEN <<ErrorRecord(i, row, u.error)>> ELSE <<>>,
             calls |-> u.calls, branch |-> "url_only"]
       ELSE [row |-> IF e.error # NoError THEN row
                     ELSE [row EXCEPT !.rating = e.rating, !.count = e.review_count,
                                      !.url = e.maps_url],
             errs |-> IF e.error # NoError THEN <<ErrorRecord(i, row, e.error)>> ELSE <<>>,
             calls |-> e.calls, branch |-> "full"]

\* The body of the row loop writing the fetched fields whether or not the
\* fetch reported an error.
RowBodyMergeAlways(row, i, findResp, detResp) ==
    LET has_rating == is_valid(row.rating)
        has_count == is_valid(row.count)
        has_url == is_valid(row.url)
        u == get_place_url_only(findResp, detResp)
        e == enrich_business(findResp, detResp)
    IN IF MissingIdent(row)
       THEN [row |-> row, errs |-> <<ErrorRecord(i, row, MissingMsg)>>,
             calls |-> <<>>, branch |-> "missing"]
       ELSE IF has_rating /\ has_count /\ has_url
       THEN [row |-> row, errs |-> <<>>, calls |-> <<>>, branch |-> "complete"]
       ELSE IF has_rating /\ has_count /\ ~has_url
       THEN [row |-> [row EXCEPT !.url = u.maps_url],
             errs |-> IF u.error # NoError THEN <<ErrorRecord(i, row, u.error)>> ELSE <<>>,
             calls |-> u.calls, branch |-> "url_only"]
       ELSE [row |-> [row EXCEPT !.rating = e.rating, !.count = e.review_count,
                                 !.url = e.maps_url],
             errs |-> IF e.error # NoError THEN <<ErrorRecord(i, row, e.error)>> ELSE <<>>,
             calls |-> e.calls, branch |-> "full"]

\* The body of the row loop of process_csv (lines 665-734) for the row at
\* 1-based position i, given the answers the two endpoints would give.
RowBody(row, i, findResp, detResp) ==
    LET has_rating == is_valid(row.rating)
        has_count == is_valid(row.count)
        has_url == is_valid(row.url)
        u == get_place_url_only(findResp, detResp)
        e == enrich_business(findResp, detResp)
    IN IF MissingIdent(row)
       THEN [row |-> row, errs |-> <<ErrorRecord(i, row, MissingMsg)>>,
             calls |-> <<>>, branch |-> "missing"]
       ELSE IF has_rating /\ has_count /\ has_url
       THEN [row |-> row, errs |-> <<>>, calls |-> <<>>, branch |-> "complete"]
       ELSE IF has_rating /\ has_count /\ ~has_url
       THEN [row |-> IF u.error # NoError THEN row ELSE [row EXCEPT !.url = u.maps_url],
             errs |-> IF u.error # NoError THEN <<ErrorRecord(i, row, u.error)>> ELSE <<>>,
             calls |-> u.calls, branch |-> "url_only"]
       ELSE [row |-> IF e.error # NoError THEN row
                     ELSE [row EXCEPT !.rating = e.rating, !.count = e.review_count,
                                      !.url = e.maps_url],
             errs |-> IF e.error # NoError THEN <<ErrorRecord(i, row, e.error)>> ELSE <<>>,
             calls |-> e.calls, branch |-> "full"]

\* Lines 625-626: the name and the address column, as positions (0 for None).
business_name_col(cols) ==
    OrElse(find_column(cols, HBusinessName), find_column(cols, HCompanyName))
business_address_col(cols) ==
    OrElse(find_column(cols, HBusinessAddress), find_column(cols, HCompanyAddress))

\* Headers of an input file: all five columns; name and address only; name,
\* address and a rating column under another spelling; and
\* files whose name column, address column or both do not resolve.
CsvSchemas ==
    { <<HBusinessName, HBusinessAddress, HRating, HCount, HMapsUrl>>,
      <<HCompanyName, HCompanyAddress>>,
      <<HCompanyName, HCompanyAddress, Chars("google_review_rating")>>,
      <<Chars("Name"), HCompanyAddress>>,
      <<HCompanyName, Chars("Phone Number")>>,
      <<Chars("Phone Number")>> }

\* A row of a table with these headers has no value in a field whose column
\* the table lacks.
FitsSchema(cols, row) ==
    /\ business_name_col(cols) = 0 => row.name = NaN
    /\ business_address_col(cols) = 0 => row.addr = NaN
    /\ find_column(cols, HRating) = 0 => row.rating = NaN
    /\ find_column(cols, HCount) = 0 => row.count = NaN
    /\ find_column(cols, HMapsUrl) = 0 => row.url = NaN

InitCsv ==
    /\ pc = "start"
    /\ columns \in CsvSchemas
    /\ df \in SeqsUpTo({r \in RowSamples : FitsSchema(columns, r)}, MaxRows)
    /\ orig = df
    /\ orig_columns = columns
    /\ first = <<>>
    /\ idx = 1
    /\ error_log \in {<<>>, <<[row |-> 99, business_name |-> NaN, business_address |-> NaN,
                                error |-> <<"stale error", "">>]>>}
    /\ rowcalls = <<>>
    /\ skipped_complete = 0
    /\ url_only_fetched = 0
    /\ full_fetched = 0
    /\ saved = NoTable
    /\ audit = <<>>
    /\ writes = <<>>
    /\ SearchIdle
    /\ AppendIdle
    /\ StagesIdle
    /\ PureIdle
    /\ CallsIdle

\* process_csv that adds the three review columns without looking for them.
ProcessCsvBeginAlwaysAdd ==
    /\ pc = "start"
    /\ error_log' = <<>>
    /\ IF business_name_col(columns) = 0 \/ business_address_col(columns) = 0
       THEN /\ pc' = "aborted"
            /\ UNCHANGED <<columns, idx, skipped_complete, url_only_fetched, full_fetched, callVars>>
       ELSE /\ pc' = "rows"
            /\ columns' = columns \o <<HRating, HCount, HMapsUrl>>
            /\ idx' = 1
            /\ skipped_complete' = 0
            /\ url_only_fetched' = 0
            /\ full_fetched' = 0
    /\ UNCHANGED <<df, orig, orig_columns, first, rowcalls, saved, audit, writes,
                   searchVars, appendVars, stageVars, pureVars, callVars>>

\* process_csv that stops only for a missing name column.
ProcessCsvBeginNameOnly ==
    /\ pc = "start"
    /\ error_log' = <<>>
    /\ IF business_name_col(columns) = 0
       THEN /\ pc' = "aborted"
            /\ UNCHANGED <<columns, idx, skipped_complete, url_only_fetched, full_fetched, callVars>>
       ELSE /\ pc' = "rows"
            /\ columns' = columns \o SelectSeq(<<HRating, HCount, HMapsUrl>>,
                                               LAMBDA h : find_column(columns, h) = 0)
            /\ idx' = 1
            /\ skipped_complete' = 0
            /\ url_only_fetched' = 0
            /\ full_fetched' = 0
    /\ UNCHANGED <<df, orig, orig_columns, first, rowcalls, saved, audit, writes,
                   searchVars, appendVars, stageVars, pureVars, callVars>>

\* process_csv up to the row loop: the error log is reset; the run exits
\* (sys.exit) when the name or the address column does not resolve;
\* otherwise the review columns the table lacks are added (their cells are
\* None, which the rows already have there) and the counters start at 0.
ProcessCsvBegin ==
    /\ pc = "start"
    /\ error_log' = <<>>
    /\ IF business_name_col(columns) = 0 \/ business_address_col(columns) = 0
       THEN /\ pc' = "aborted"
            /\ UNCHANGED <<columns, idx, skipped_complete, url_only_fetched, full_fetched, callVars>>
       ELSE /\ pc' = "rows"
            /\ columns' = columns \o SelectSeq(<<HRating, HCount, HMapsUrl>>,
                                               LAMBDA h : find_column(columns, h) = 0)
            /\ idx' = 1
            /\ skipped_complete' = 0
            /\ url_only_fetched' = 0
            /\ full_fetched' = 0
    /\ UNCHANGED <<df, orig, orig_columns, first, rowcalls, saved, audit, writes,
                   searchVars, appendVars, stageVars, pureVars, callVars>>

\* One iteration of the row loop.
ProcessRow ==
    /\ pc = "rows"
    /\ idx <= Len(df)
    /\ \E findResp \in FindResponses, detResp \in DetailResponses :
         LET r == RowBody(df[idx], idx, findResp, detResp)
         IN /\ df' = [df EXCEPT ![idx] = r.row]
            /\ error_log' = error_log \o r.errs
            /\ rowcalls' = Append(rowcalls, r.calls)
            /\ skipped_complete' = skipped_complete + (IF r.branch = "complete" THEN 1 ELSE 0)
            /\ url_only_fetched' = url_only_fetched + (IF r.branch = "url_only" THEN 1 ELSE 0)
            /\ full_fetched' = full_fetched + (IF r.branch = "full" THEN 1 ELSE 0)
    /\ idx' = idx + 1
    /\ UNCHANGED <<pc, columns, orig, orig_columns, first, saved, audit, writes,
                   searchVars, appendVars, stageVars, pureVars, callVars>>

\* The end of process_csv writing error_log.csv whether or not there are errors.
ProcessCsvSaveAuditAlways ==
    /\ pc = "rows"
    /\ idx > Len(df)
    /\ pc' = "done"
    /\ saved' = [cols |-> columns, rows |-> df]
    /\ audit' = error_log
    /\ writes' = <<"output", "error_log">>
    /\ UNCHANGED <<df, columns, orig, orig_columns, first, idx, error_log, rowcalls,
                   skipped_complete, url_only_fetched, full_fetched,
                   searchVars, appendVars, stageVars, pureVars, callVars>>

\* After the loop: the table is written, then the audit file when there are errors.
ProcessCsvSave ==
    /\ pc = "rows"
    /\ idx > Len(df)
    /\ pc' = "done"
    /\ saved' = [cols |-> columns, rows |-> df]
    /\ audit' = IF error_log # <<>> THEN error_log ELSE audit
    /\ writes' = IF error_log # <<>> THEN <<"output", "error_log">> ELSE <<"output">>
    /\ UNCHANGED <<df, columns, orig, orig_columns, first, idx, error_log, rowcalls,
                   skipped_complete, url_only_fetched, full_fetched,
                   searchVars, appendVars, stageVars, pureVars, callVars>>

NextCsv == ProcessCsvBegin \/ ProcessRow \/ ProcessCsvSave

SpecCsv == InitCsv /\ [][NextCsv]_vars

\* pd.read_csv of a row written by df.to_csv: an empty cell reads as NaN.
ReadBack(row) ==
    [name |-> CsvCell(row.name), addr |-> CsvCell(row.addr), rating |-> CsvCell(row.rating),
     count |-> CsvCell(row.count), url |-> CsvCell(row.url)]

\* A second process_csv call, on the file the first one wrote: the table is
\* read back from it; the files on disk stay as they are.
ProcessCsvAgain ==
    /\ pc = "done"
    /\ first = <<>>
    /\ Len(saved.rows) <= MaxRerunRows
    /\ pc' = "start"
    /\ first' = <<[columns |-> orig_columns, orig |-> orig, saved |-> saved,
                   error_log |-> error_log, rowcalls |-> rowcalls]>>
    /\ df' = [i \in 1..Len(saved.rows) |-> ReadBack(saved.rows[i])]
    /\ columns' = saved.cols
    /\ orig' = df'
    /\ orig_columns' = saved.cols
    /\ idx' = 1
    /\ rowcalls' = <<>>
    /\ writes' = <<>>
    /\ UNCHANGED <<error_log, skipped_complete, url_only_fetched, full_fetched, saved, audit,
                   searchVars, appendVars, stageVars, pureVars, callVars>>

\* Two runs in a row, over tables whose address is always given.
InitCsvTwice ==
    /\ InitCsv
    /\ business_name_col(columns) # 0 /\ business_address_col(columns) # 0
    /\ error_log = <<>>
    /\ \A i \in 1..Len(df) : df[i].name \in {Txt(Chars("Al")), NaN} /\ ~IsNa(df[i].addr)

\* One run that keeps taking steps until it returns, over rows that miss the
\* name, need the full fetch or need the URL alone.
InitCsvLive ==
    /\ InitCsvTwice
    /\ columns = <<HBusinessName, HBusinessAddress, HRating, HCount, HMapsUrl>>
    /\ \A i \in 1..Len(df) : IsNa(df[i].rating) \/ df[i].url = Txt(Chars("  "))

SpecCsvLive == InitCsvLive /\ [][NextCsv]_vars /\ WF_vars(NextCsv)

NextCsvTwice == NextCsv \/ ProcessCsvAgain

SpecCsvTwice == InitCsvTwice /\ [][NextCsvTwice]_vars

\* ------------------------------------------------- process_csv: properties

\* Rows the loop has handled so far.
Handled == 1..Len(rowcalls)

\* The ErrorRecords of this run for the row at position i.
ErrsOf(i) == SelectSeq(error_log, LAMBDA e : e.row = i + 1)

\* A remote call that did not deliver: a raised exception, a non-200 status,
\* or a find-id answer without any place.
CallFailed(c) ==
    /\ c.op \in {"find", "details", "url"}
    /\ \/ c.resp.kind = "exc"
       \/ c.resp.status # 200
       \/ c.op = "find" /\ c.resp.places = <<>>

\* The message an ErrorRecord has to carry for a failed call.
Carries(err, c) ==
    IF c.resp.kind = "http" /\ c.resp.status = 200
    THEN err = NotFoundMsg
    ELSE Len(err) = 2 /\ err[2] = c.resp.msg

AllSpace(s) == \A k \in 1..Len(s) : IsSpace(s[k])

\* A value the completeness check counts as present, in the words of the
\* specification: not absent, not blank, not the placeholder 'Not Found'.
PresentValue(v) ==
    /\ v.k # "nan"
    /\ v.k = "str" => ~AllSpace(v.s) /\ v.s # NotFound

\* An identifying field that is missing or blank.
BlankIdent(v) == v.k = "nan" \/ (v.k = "str" /\ AllSpace(v.s))

SameReviewFields(a, b) ==
    a.rating = b.rating /\ a.count = b.count /\ a.url = b.url

Ops(calls) == [k \in 1..Len(calls) |-> calls[k].op]

\* C1: when the find-id call or the detail call of a row fails, none of the
\* row's three review fields changes, exactly one ErrorRecord carrying the
\* underlying message is logged for it, and the loop goes on to every later
\* row; no row gets both a field update and an ErrorRecord.
C1_FailureIsolated ==
    /\ \A i \in Handled :
         /\ \A j \in 1..Len(rowcalls[i]) :
              CallFailed(rowcalls[i][j]) =>
                /\ SameReviewFields(df[i], orig[i])
                /\ Len(ErrsOf(i)) = 1
                /\ Carries(ErrsOf(i)[1].error, rowcalls[i][j])
                /\ j = Len(rowcalls[i])
         /\ Len(ErrsOf(i)) <= 1
         /\ Len(ErrsOf(i)) = 1 => df[i] = orig[i]
    /\ pc = "rows" /\ idx <= Len(df) => ENABLED ProcessRow
    /\ pc = "done" => Len(rowcalls) = Len(df)

\* C1 witness: a row failed remotely and the rows after it were handled.
C1_Witness ==
    /\ pc = "done"
    /\ \E i \in Handled :
         /\ i < Len(df)
         /\ \E j \in 1..Len(rowcalls[i]) : CallFailed(rowcalls[i][j])
         /\ rowcalls[i + 1] # <<>>

\* The three review fields of the row as read are all present.
WasComplete(i) ==
    is_valid(orig[i].rating) /\ is_valid(orig[i].count) /\ is_valid(orig[i].url)

WasUrlOnly(i) ==
    is_valid(orig[i].rating) /\ is_valid(orig[i].count) /\ ~is_valid(orig[i].url)

\* C2 as stated: a row whose three review fields are all present is counted
\* as skipped-complete and produces no ErrorRecord, whatever its name and
\* address are.
C2_CompleteBeforeMissing ==
    /\ \A i \in Handled : WasComplete(i) => ErrsOf(i) = <<>>
    /\ pc # "start" =>
         skipped_complete = Cardinality({i \in Handled : WasComplete(i)})

\* C2 amended: the outcome of a row is chosen in the order (d) name or
\* address missing -> one ErrorRecord, no remote call, not counted as skipped;
\* (a) all three review fields present -> skip, counted as already complete;
\* (b) rating and count present, URL missing -> URL-only lookup; (c) otherwise
\* -> full fetch.
C2_MissingBeforeComplete ==
    /\ \A i \in Handled :
         IF MissingIdent(orig[i])
         THEN /\ Len(ErrsOf(i)) = 1 /\ ErrsOf(i)[1].error = MissingMsg
              /\ rowcalls[i] = <<>>
         ELSE IF WasComplete(i)
         THEN ErrsOf(i) = <<>> /\ rowcalls[i] = <<>>
         ELSE IF WasUrlOnly(i)
         THEN /\ Len(rowcalls[i]) >= 2
              /\ \A k \in 1..Len(rowcalls[i]) : rowcalls[i][k].op # "details"
         ELSE /\ Len(rowcalls[i]) >= 2
              /\ \A k \in 1..Len(rowcalls[i]) : rowcalls[i][k].op # "url"
    /\ pc # "start" =>
         /\ skipped_complete =
              Cardinality({i \in Handled : ~MissingIdent(orig[i]) /\ WasComplete(i)})
         /\ url_only_fetched =
              Cardinality({i \in Handled : ~MissingIdent(orig[i]) /\ WasUrlOnly(i)})
         /\ full_fetched =
              Cardinality({i \in Handled : /\ ~MissingIdent(orig[i])
                                           /\ ~WasComplete(i) /\ ~WasUrlOnly(i)})

\* C2 witness: a handled row with all three review fields present and no
\* name got an ErrorRecord, beside a complete row that was skipped.
C2_Witness ==
    /\ \E i \in Handled :
         WasComplete(i) /\ MissingIdent(orig[i]) /\ Len(ErrsOf(i)) = 1
    /\ \E i \in Handled :
         WasComplete(i) /\ ~MissingIdent(orig[i])
    /\ skipped_complete = 1

\* C3: on a table whose rows all have rating, review count and detail URL
\* present, a run makes no remote call and leaves the three fields of every
\* row as they were.
C3_CompleteTableNoCalls ==
    (\A i \in 1..Len(orig) :
        PresentValue(orig[i].rating) /\ PresentValue(orig[i].count)
        /\ PresentValue(orig[i].url))
    => /\ \A i \in Handled : rowcalls[i] = <<>>
       /\ \A i \in 1..Len(df) : SameReviewFields(df[i], orig[i])

\* C3 witness: a run over two complete rows has finished.
C3_Witness ==
    /\ pc = "done"
    /\ Len(orig) >= 2
    /\ \A i \in 1..Len(orig) :
         PresentValue(orig[i].rating) /\ PresentValue(orig[i].count)
         /\ PresentValue(orig[i].url)
    /\ saved.rows = orig

\* C4: a row with name and address, rating and review count present and
\* the URL missing causes one delay, one find-id request and at most one
\* detail request, which asks for the URL alone; the full fetch is never
\* made, and rating and review count stay as they were.
C4_UrlOnlyLookup ==
    \A i \in Handled :
        ( /\ ~BlankIdent(orig[i].name) /\ ~BlankIdent(orig[i].addr)
          /\ PresentValue(orig[i].rating) /\ PresentValue(orig[i].count)
          /\ ~PresentValue(orig[i].url) )
        => /\ Ops(rowcalls[i]) \in {<<"sleep", "find">>, <<"sleep", "find", "url">>}
           /\ Len(rowcalls[i]) = 3 => ~CallFailed(rowcalls[i][2])
           /\ df[i].rating = orig[i].rating
           /\ df[i].count = orig[i].count

\* C4 witness: one such row got its URL, another such row failed.
C4_Witness ==
    \E i, j \in Handled :
        /\ WasUrlOnly(i) /\ WasUrlOnly(j)
        /\ ~MissingIdent(orig[i]) /\ ~MissingIdent(orig[j])
        /\ Len(rowcalls[i]) = 3 /\ df[i].url = Txt(Chars("ub")) /\ ErrsOf(i) = <<>>
        /\ Len(rowcalls[j]) = 3 /\ Len(ErrsOf(j)) = 1 /\ df[j].url = orig[j].url

\* C5: a row whose name or address is missing or blank gets exactly one
\* ErrorRecord, causes no remote call and no delay, and is left unchanged.
C5_MissingIdentNoCall ==
    \A i \in Handled :
        (BlankIdent(orig[i].name) \/ BlankIdent(orig[i].addr))
        => /\ Len(ErrsOf(i)) = 1
           /\ rowcalls[i] = <<>>
           /\ df[i] = orig[i]

\* C5 witness: a row with a blank name and a row with no address were handled.
C5_Witness ==
    \E i, j \in Handled :
        /\ orig[i].name = Txt(Chars("  ")) /\ ~IsNa(orig[i].addr)
        /\ IsNa(orig[j].addr) /\ orig[j].name = Txt(Chars("Al"))
        /\ Len(ErrsOf(i)) = 1 /\ Len(ErrsOf(j)) = 1

\* ------------------------------------------------------- search_businesses

\* The largest pageSize a request asks for: min(max_results, 20).
PageSizeCap == 20

\* Answers of the text-search endpoint to a page request: a raised
\* transport error, a non-200 status with the API's error body, or a 200
\* whose body may lack 'places' and may lack 'nextPageToken' (token "").
SearchPage(hp, k, tok) ==
    [kind |-> "http", status |-> 200, hasPlaces |-> hp, n |-> k, token |-> tok]
SearchResponses ==
    { [kind |-> "exc", status |-> 0, hasPlaces |-> FALSE, n |-> 0, token |-> ""],
      [kind |-> "http", status |-> 500, hasPlaces |-> FALSE, n |-> 0, token |-> ""] }
    \cup {SearchPage(FALSE, 0, tok) : tok \in {"", "t"}}
    \cup {SearchPage(TRUE, k, tok) : k \in {0, 1, 2, 15}, tok \in {"", "t"}}

\* result['places'] of the page answered to request number p: its k-th
\* place is the pair <<p, k>>.
Places(p, resp) == [k \in 1..resp.n |-> <<p, k>>]

Min(a, b) == IF a < b THEN a ELSE b

\* The for loop without its break at the limit.
RECURSIVE AddPlacesNoBreak(_, _, _)
AddPlacesNoBreak(bs, places, limit) ==
    IF places = <<>> THEN bs
    ELSE AddPlacesNoBreak(Append(bs, Head(places)), Tail(places), limit)

\* The for loop of lines 447-458: append each place, stop at the limit.
RECURSIVE AddPlaces(_, _, _)
AddPlaces(bs, places, limit) ==
    IF places = <<>> THEN bs
    ELSE LET b1 == Append(bs, Head(places))
         IN IF Len(b1) >= limit THEN b1 ELSE AddPlaces(b1, Tail(places), limit)

\* The loop body going round again after a failed request.
PageStepRetry(bs, d, limit, p, resp) ==
    IF resp.kind = "exc" \/ resp.status # 200
    THEN [businesses |-> bs, data |-> d, next |-> "while"]
    ELSE IF ~resp.hasPlaces
    THEN [businesses |-> bs, data |-> d, next |-> "returned"]
    ELSE LET b1 == AddPlaces(bs, Places(p, resp), limit)
         IN IF resp.token = "" \/ Len(b1) >= limit
            THEN [businesses |-> b1, data |-> d, next |-> "returned"]
            ELSE [businesses |-> b1, data |-> [d EXCEPT !.pageToken = resp.token],
                  next |-> "while"]

\* Lines 430-465: what the loop body does with the answer to page request p.
PageStep(bs, d, limit, p, resp) ==
    IF resp.kind = "exc"
    THEN [businesses |-> bs, data |-> d, next |-> "returned"]
    ELSE IF resp.status # 200
    THEN [businesses |-> bs, data |-> d, next |-> "returned"]
    ELSE IF ~resp.hasPlaces
    THEN [businesses |-> bs, data |-> d, next |-> "returned"]
    ELSE LET b1 == AddPlaces(bs, Places(p, resp), limit)
         IN IF resp.token = "" \/ Len(b1) >= limit
            THEN [businesses |-> b1, data |-> d, next |-> "returned"]
            ELSE [businesses |-> b1, data |-> [d EXCEPT !.pageToken = resp.token],
                  next |-> "while"]

InitSearch ==
    /\ pc = "while"
    /\ max_results \in {0, 1, 3, 20}
    /\ businesses = <<>>
    /\ data = [pageSize |-> Min(max_results, PageSizeCap), pageToken |-> ""]
    /\ pagelog = <<>>
    /\ sleeps = 0
    /\ CsvIdle
    /\ AppendIdle
    /\ StagesIdle
    /\ PureIdle
    /\ CallsIdle

\* Line 428: the loop test.
SearchWhile ==
    /\ pc = "while"
    /\ pc' = IF Len(businesses) < max_results THEN "sleep" ELSE "returned"
    /\ UNCHANGED <<csvVars, appendVars, stageVars, pureVars, searchVars, callVars>>

\* The delay taken before the first request only.
SearchSleepFirstOnly ==
    /\ pc = "sleep"
    /\ pc' = "post"
    /\ sleeps' = IF pagelog = <<>> THEN sleeps + 1 ELSE sleeps
    /\ UNCHANGED <<csvVars, appendVars, stageVars, pureVars, max_results, businesses, data,
                   pagelog, callVars>>

\* Line 429: the rate-limit delay.
SearchSleep ==
    /\ pc = "sleep"
    /\ pc' = "post"
    /\ sleeps' = sleeps + 1
    /\ UNCHANGED <<csvVars, appendVars, stageVars, pureVars, max_results, businesses, data,
        pagelog, callVars>>

\* Lines 430-465: one page request and the handling of its answer.
SearchPost ==
    /\ pc = "post"
    /\ Len(pagelog) < MaxRequests
    /\ \E resp \in SearchResponses :
         LET r == PageStep(businesses, data, max_results, Len(pagelog) + 1, resp)
         IN /\ businesses' = r.businesses
            /\ data' = r.data
            /\ pc' = r.next
            /\ pagelog' = Append(pagelog, resp)
    /\ UNCHANGED <<csvVars, appendVars, stageVars, pureVars, max_results, sleeps, callVars>>

NextSearch == SearchWhile \/ SearchSleep \/ SearchPost

SpecSearch == InitSearch /\ [][NextSearch]_vars

\* The same loop without the history of requests: the answers are not
\* recorded, so that a run may go on for ever.
SearchPostAny ==
    /\ pc = "post"
    /\ \E resp \in SearchResponses :
         LET r == PageStep(businesses, data, max_results, 1, resp)
         IN /\ businesses' = r.businesses
            /\ data' = r.data
            /\ pc' = r.next
    /\ UNCHANGED <<csvVars, appendVars, stageVars, pureVars, max_results, pagelog, sleeps, callVars>>

SearchSleepAny ==
    /\ pc = "sleep"
    /\ pc' = "post"
    /\ UNCHANGED <<csvVars, appendVars, stageVars, pureVars, searchVars, callVars>>

NextSearchLive == SearchWhile \/ SearchSleepAny \/ SearchPostAny

\* The loop is sequential code: it takes its next step whenever it has one,
\* and every request ends (an answer, or the timeout's exception).
SpecSearchLive == InitSearch /\ [][NextSearchLive]_vars /\ WF_vars(NextSearchLive)

\* ------------------------------------------- search_businesses: properties

\* A page answer the loop takes places from.
PageOk(resp) == resp.kind = "http" /\ resp.status = 200 /\ resp.hasPlaces

\* A non-success answer or a raised transport error.
PageFailed(resp) == resp.kind = "exc" \/ resp.status # 200

\* The places of the first j answers, in server order.
RECURSIVE Served(_)
Served(j) ==
    IF j = 0 THEN <<>>
    ELSE Served(j - 1) \o (IF PageOk(pagelog[j]) THEN Places(j, pagelog[j]) ELSE <<>>)

Take(s, k) == SubSeq(s, 1, Min(k, Len(s)))

\* The run of the specification's example: pages of 15 and 15 items, each
\* with a continuation token, and a limit of 20.
Example15 ==
    /\ max_results = 20
    /\ Len(pagelog) >= 2
    /\ pagelog[1] = SearchPage(TRUE, 15, "t")
    /\ pagelog[2] = SearchPage(TRUE, 15, "t")

\* C6: search_businesses never holds more than max_results rows, the rows are
\* the first max_results places served, in server order, and a page request
\* is only made while fewer than max_results rows are collected and the page
\* before it carried a continuation token; with pages of 15 and 15 items and
\* max_results = 20 it returns 20 rows (15 of page one, then the first 5 of
\* page two) after exactly 2 requests.
C6_BoundedPagination ==
    /\ Len(businesses) <= max_results
    /\ businesses = Take(Served(Len(pagelog)), max_results)
    /\ \A j \in 2..Len(pagelog) :
         /\ PageOk(pagelog[j - 1])
         /\ pagelog[j - 1].token # ""
         /\ Len(Served(j - 1)) < max_results
    /\ max_results = 0 => pagelog = <<>>
    /\ Example15 =>
         /\ Len(pagelog) = 2
         /\ pc = "returned"
         /\ businesses = [i \in 1..20 |-> IF i <= 15 THEN <<1, i>> ELSE <<2, i - 15>>]

\* C6 witness: the example run has returned.
C6_Witness == Example15 /\ pc = "returned" /\ Len(businesses) = 20

\* C7 as stated: search_businesses returns, whatever the server answers.
C7_Terminates == <>(pc = "returned")

C25_DelayBeforeEachRequest ==
    /\ sleeps = Len(pagelog) + (IF pc = "post" THEN 1 ELSE 0)
    /\ pagelog # <<>> => sleeps >= 1

\* C25 witness: three requests were made, after three delays.
C25_Witness == pc = "returned" /\ Len(pagelog) = 3 /\ sleeps = 3

\* ----------------------------------------------------------- process_search

\* normalize without the whitespace collapse.
normalize_no_collapse(val) ==
    IF IsNa(val) THEN <<>> ELSE Lower(Strip(StrOf(val)))

\* normalize (nested in process_search)
normalize(val) ==
    IF IsNa(val) THEN <<>> ELSE Lower(Strip(CollapseSpace(StrOf(val))))

\* The columns of DataFrame(businesses), in the order of the dict.
NewCols == <<HCompanyName, HCompanyAddress, Chars("Phone Number"), Chars("Website"), HRating,
    HCount, HMapsUrl>>

\* One dict of search_businesses, as a row of DataFrame(businesses).
Business(nm, ad, url) == <<Txt(nm), Txt(ad), Txt(<<>>), Txt(<<>>), Num(4), Num(12), Txt(url)>>

\* Position of a literal header among the columns, 0 when absent.
ColIndex(cols, h) ==
    LET hits == {k \in 1..Len(cols) : cols[k] = h}
    IN IF hits = {} THEN 0 ELSE CHOOSE k \in hits : \A m \in hits : k <= m

\* Rows search_businesses may return.
NewRowSamples ==
    { Business(Chars(" alpha  dental "), Chars("123   Main St, Austin, TX"), Chars("u1")),
      Business(Chars("Gamma Clinic"), Chars("789 Pine Rd, Austin, TX"), Chars("u3")),
      Business(Chars("Beta Smiles"), Chars("456 Oak Ave, Austin, TX"), Chars(" u2")),
      Business(<<>>, Chars("123 Main St, Austin, TX"), <<>>) }

\* Schemas of an older output file, and rows (name, address, URL) of it as
\* read_csv gives them: an empty cell is NaN, surrounding blanks are kept.
Schemas ==
    { <<HCompanyName, HCompanyAddress, HMapsUrl>>,
      <<HCompanyName, HCompanyAddress>>,
      <<Chars("business_name"), Chars("Business-Address")>>,
      <<Chars("Name"), HCompanyAddress>> }
OldRowSamples ==
    { <<Txt(Chars("Alpha Dental")), Txt(Chars("123 Main St, Austin, TX")), Txt(Chars("u1"))>>,
      <<Txt(Chars("Beta Smiles")), Txt(Chars("456 Oak Ave, Austin, TX")), Txt(Chars("u2 "))>>,
      <<NaN, Txt(Chars("123 Main St, Austin, TX")), NaN>>,
      <<Txt(Chars("Gamma Clinic")), Txt(Chars("456 Oak Ave, Austin, TX")), Txt(Chars("  "))>> }

\* No file, or an existing file of one of the schemas: each row keeps the
\* cells of the columns the schema has.
Files ==
    { [exists |-> FALSE, table |-> NoTable] }
    \cup { [exists |-> TRUE,
             table |-> [cols |-> c,
                        rows |-> [i \in 1..Len(rs) |-> SubSeq(rs[i], 1, Len(c))]]] :
             c \in Schemas, rs \in SeqsUpTo(OldRowSamples, MaxExisting) }

\* The cell of a row of table t under the literal header h (NaN when t has
\* no such column): how pd.concat aligns rows to the union of the columns.
CellOf(t, i, h) ==
    IF ColIndex(t.cols, h) = 0 THEN NaN ELSE t.rows[i][ColIndex(t.cols, h)]

\* pd.concat with the frames in the other order.
ConcatNewFirst(a, b) ==
    LET extra == SelectSeq(b.cols, LAMBDA h : ColIndex(a.cols, h) = 0)
        cols == a.cols \o extra
    IN [cols |-> cols,
        rows |-> [i \in 1..Len(b.rows) |-> [k \in 1..Len(cols) |-> CellOf(b, i, cols[k])]]
                 \o [i \in 1..Len(a.rows) |-> [k \in 1..Len(cols) |-> CellOf(a, i, cols[k])]]]

\* pd.concat([a, b], ignore_index=True)
Concat(a, b) ==
    LET extra == SelectSeq(b.cols, LAMBDA h : ColIndex(a.cols, h) = 0)
        cols == a.cols \o extra
    IN [cols |-> cols,
        rows |-> [i \in 1..Len(a.rows) |-> [k \in 1..Len(cols) |-> CellOf(a, i, cols[k])]]
                 \o [i \in 1..Len(b.rows) |-> [k \in 1..Len(cols) |-> CellOf(b, i, cols[k])]]]

\* Line 496: the set of trimmed URLs of the existing rows that have one.
ExistingUrls(t) ==
    LET k == ColIndex(t.cols, HMapsUrl)
    IN {Strip(StrOf(t.rows[i][k])) : i \in {j \in 1..Len(t.rows) : ~IsNa(t.rows[j][k])}}

\* Line 497 comparing the URLs untrimmed.
KeepByUrlNoStrip(t, new) ==
    LET k == ColIndex(t.cols, HMapsUrl)
        urls == {StrOf(t.rows[i][k]) : i \in {j \in 1..Len(t.rows) : ~IsNa(t.rows[j][k])}}
    IN [new EXCEPT !.rows = SelectSeq(new.rows,
            LAMBDA r : (IF IsNa(r[7]) THEN <<>> ELSE StrOf(r[7])) \notin urls)]

\* Line 497: the new rows whose trimmed URL (NaN read as '') is not among them.
KeepByUrl(t, new) ==
    [new EXCEPT !.rows = SelectSeq(new.rows,
        LAMBDA r : Strip(IF IsNa(r[7]) THEN <<>> ELSE StrOf(r[7])) \notin ExistingUrls(t))]

\* Lines 509-517: the new rows whose (name, address) key is not a key of the
\* existing table, whose name and address columns are at nc and ac.
KeepByNameAddress(t, nc, ac, new) ==
    LET existing_keys == {<<normalize(t.rows[i][nc]), normalize(t.rows[i][ac])>> :
                            i \in 1..Len(t.rows)}
    IN [new EXCEPT !.rows = SelectSeq(new.rows,
            LAMBDA r : <<normalize(r[1]), normalize(r[2])>> \notin existing_keys)]

\* Lines 494-520: the branch taken and the new rows that survive.
Dedupe(t, new) ==
    IF ColIndex(t.cols, HMapsUrl) # 0
    THEN [strategy |-> "url", new_df |-> KeepByUrl(t, new)]
    ELSE LET nc == OrElse(find_column(t.cols, HCompanyName), find_column(t.cols, HBusinessName))
             ac == OrElse(find_column(t.cols, HCompanyAddress),
                          find_column(t.cols, HBusinessAddress))
         IN IF nc # 0 /\ ac # 0
            THEN [strategy |-> "name_address", new_df |-> KeepByNameAddress(t, nc, ac, new)]
            ELSE [strategy |-> "none", new_df |-> new]

\* The table a later pd.read_csv gives for what df.to_csv wrote.
CsvRoundTrip(t) ==
    [cols |-> t.cols,
     rows |-> [i \in 1..Len(t.rows) |-> [k \in 1..Len(t.cols) |-> CsvCell(t.rows[i][k])]]]

InitAppend ==
    /\ pc = "call"
    /\ file \in Files
    /\ append \in BOOLEAN
    /\ new_rows = <<>>
    /\ existing_df = NoTable
    /\ strategy = ""
    /\ CsvIdle
    /\ SearchIdle
    /\ StagesIdle
    /\ PureIdle
    /\ CallsIdle

\* process_search with enrich_web False: the search result is merged into
\* the table read from the existing file (append mode) or replaces it, and
\* is written; an empty search result returns before anything is read or
\* written.
ProcessSearch ==
    /\ pc = "call"
    /\ pc' = "done"
    /\ \E bs \in SeqsUpTo(NewRowSamples, MaxNew) :
         LET new == [cols |-> NewCols, rows |-> bs]
             old == CsvRoundTrip(file.table)
             d == Dedupe(old, new)
         IN /\ new_rows' = bs
            /\ IF bs = <<>>
               THEN UNCHANGED <<file, existing_df, strategy, callVars>>
               ELSE IF append /\ file.exists
               THEN /\ existing_df' = old
                    /\ strategy' = d.strategy
                    /\ file' = [exists |-> TRUE, table |-> Concat(old, d.new_df)]
               ELSE /\ existing_df' = NoTable
                    /\ strategy' = "replace"
                    /\ file' = [exists |-> TRUE, table |-> new]
    /\ UNCHANGED <<csvVars, searchVars, append, stageVars, pureVars, callVars>>

NextAppend == ProcessSearch

SpecAppend == InitAppend /\ [][NextAppend]_vars

\* process_search called once more with the same arguments, the search
\* returning the same rows: it reads the file the first call left.
ProcessSearchAgain ==
    /\ pc = "done"
    /\ pc' = "done2"
    /\ LET new == [cols |-> NewCols, rows |-> new_rows]
           old == CsvRoundTrip(file.table)
           d == Dedupe(old, new)
       IN IF new_rows = <<>>
          THEN UNCHANGED <<file, existing_df, strategy, callVars>>
          ELSE IF append /\ file.exists
          THEN /\ existing_df' = old
               /\ strategy' = d.strategy
               /\ file' = [exists |-> TRUE, table |-> Concat(old, d.new_df)]
          ELSE /\ existing_df' = NoTable
               /\ strategy' = "replace"
               /\ file' = [exists |-> TRUE, table |-> new]
    /\ UNCHANGED <<csvVars, searchVars, append, new_rows, stageVars, pureVars, callVars>>

NextAppendTwice == ProcessSearch \/ ProcessSearchAgain

SpecAppendTwice == InitAppend /\ [][NextAppendTwice]_vars

\* ------------------------------------------------ process_search: properties

\* The call appended to an existing file: it had a search result and read
\* the file.
Appended == pc = "done" /\ append /\ new_rows # <<>> /\ existing_df.cols # <<>>

\* The cell of row i of the written table under the literal header h.
OutCell(i, h) == CellOf(file.table, i, h)

\* The written table is the rows read from the file, in their order and with
\* their cells, followed by the rows kept, in their order and with theirs.
MergedIs(kept) ==
    /\ Len(file.table.rows) = Len(existing_df.rows) + Len(kept)
    /\ \A i \in 1..Len(existing_df.rows) : \A k \in 1..Len(existing_df.cols) :
         OutCell(i, existing_df.cols[k]) = existing_df.rows[i][k]
    /\ \A j \in 1..Len(kept) : \A k \in 1..Len(NewCols) :
         OutCell(Len(existing_df.rows) + j, NewCols[k]) = kept[j][k]

\* An existing row has a URL whose trimmed text is the trimmed URL of r.
UrlTaken(r) ==
    \E i \in 1..Len(existing_df.rows) :
        LET u == CellOf(existing_df, i, HMapsUrl)
        IN u.k # "nan" /\ Strip(StrOf(u)) = Strip(StrOf(r[7]))

\* C9: appending to a file that has a 'Google Maps URL' column drops the new
\* rows whose trimmed URL is the trimmed URL of an existing row and keeps all
\* others, those with a blank URL included; the written table is the
\* existing rows in their order, then the kept new rows in search order.
C9_AppendDedupesByUrl ==
    (Appended /\ ColIndex(existing_df.cols, HMapsUrl) # 0)
    => MergedIs(SelectSeq(new_rows, LAMBDA r : ~UrlTaken(r)))

\* C9 witness: of two new rows one matched an existing URL up to surrounding
\* blanks and was dropped, the other had a blank URL and was kept.
C9_Witness ==
    /\ Appended /\ ColIndex(existing_df.cols, HMapsUrl) # 0
    /\ Len(existing_df.rows) = 2
    /\ new_rows = <<Business(Chars("Beta Smiles"), Chars("456 Oak Ave, Austin, TX"),
        Chars(" u2")), Business(<<>>, Chars("123 Main St, Austin, TX"), <<>>)>>
    /\ existing_df.rows[1] = <<Txt(Chars("Alpha Dental")),
        Txt(Chars("123 Main St, Austin, TX")), Txt(Chars("u1"))>>
    /\ existing_df.rows[2] = <<Txt(Chars("Beta Smiles")), Txt(Chars("456 Oak Ave, Austin, TX")),
        Txt(Chars("u2 "))>>
    /\ Len(file.table.rows) = 3
    /\ OutCell(3, HMapsUrl) = Txt(<<>>)

\* The position of the first whitespace character of s, Len(s) + 1 if none.
RECURSIVE WordEnd(_, _)
WordEnd(s, k) == IF k > Len(s) \/ IsSpace(s[k]) THEN k ELSE WordEnd(s, k + 1)

\* The lower-cased words of a text, in order.
RECURSIVE Words(_)
Words(s) ==
    LET u == LStrip(s)
    IN IF u = <<>> THEN <<>>
       ELSE <<Lower(SubSeq(u, 1, WordEnd(u, 1) - 1))>>
            \o Words(SubSeq(u, WordEnd(u, 1), Len(u)))

\* The dedupe key of a cell as the claim describes it: texts are equal after
\* normalization exactly when they have the same lower-cased words.
KeyOf(v) == IF v.k = "nan" THEN <<>> ELSE Words(StrOf(v))

NameCol == OrElse(find_column(existing_df.cols, HCompanyName),
                  find_column(existing_df.cols, HBusinessName))
AddrCol == OrElse(find_column(existing_df.cols, HCompanyAddress),
                  find_column(existing_df.cols, HBusinessAddress))

\* An existing row has the (name, address) pair of r after normalization.
PairTaken(r) ==
    \E i \in 1..Len(existing_df.rows) :
        /\ KeyOf(existing_df.rows[i][NameCol]) = KeyOf(r[1])
        /\ KeyOf(existing_df.rows[i][AddrCol]) = KeyOf(r[2])

\* C10: appending to a file without a detail-URL column whose name and
\* address columns resolve drops a new row exactly when its normalized
\* (name, address) pair is that of an existing row; (' alpha  dental ',
\* '123   Main St, Austin, TX') is dropped against ('Alpha Dental',
\* '123 Main St, Austin, TX'), and ('Gamma Clinic', '789 Pine Rd, Austin, TX')
\* is kept.
C10_AppendDedupesByNameAddress ==
    (Appended /\ ColIndex(existing_df.cols, HMapsUrl) = 0 /\ NameCol # 0 /\ AddrCol # 0)
    => /\ MergedIs(SelectSeq(new_rows, LAMBDA r : ~PairTaken(r)))
       /\ (\E i \in 1..Len(existing_df.rows) :
              /\ existing_df.rows[i][NameCol] = Txt(Chars("Alpha Dental"))
              /\ existing_df.rows[i][AddrCol] = Txt(Chars("123 Main St, Austin, TX")))
          => \A i \in 1..Len(file.table.rows) : OutCell(i,
              HCompanyName) # Txt(Chars(" alpha  dental "))
       /\ \A j \in 1..Len(new_rows) :
            new_rows[j] = Business(Chars("Gamma Clinic"), Chars("789 Pine Rd, Austin, TX"),
                Chars("u3"))
            => \E i \in Len(existing_df.rows) + 1..Len(file.table.rows) :
                  /\ OutCell(i, HCompanyName) = Txt(Chars("Gamma Clinic"))
                  /\ OutCell(i, HCompanyAddress) = Txt(Chars("789 Pine Rd, Austin, TX"))

\* C10 witness: the example of the claim, on a file whose headers resolve
\* only through normalization.
C10_Witness ==
    /\ Appended
    /\ existing_df.cols = <<Chars("business_name"), Chars("Business-Address")>>
    /\ existing_df.rows = <<<<Txt(Chars("Alpha Dental")),
        Txt(Chars("123 Main St, Austin, TX"))>>, <<Txt(Chars("Beta Smiles")),
        Txt(Chars("456 Oak Ave, Austin, TX"))>>>>
    /\ new_rows = <<Business(Chars(" alpha  dental "), Chars("123   Main St, Austin, TX"),
        Chars("u1")), Business(Chars("Gamma Clinic"), Chars("789 Pine Rd, Austin, TX"),
        Chars("u3"))>>
    /\ Len(file.table.rows) = 3
    /\ OutCell(3, HCompanyName) = Txt(Chars("Gamma Clinic"))

\* The elements of s at the positions in S, in the order of s.
PickAt(s, S) ==
    LET F[k \in 0..Len(s)] ==
            IF k = 0 THEN <<>>
            ELSE IF k \in S THEN Append(F[k - 1], s[k]) ELSE F[k - 1]
    IN F[Len(s)]

\* C11: whichever dedupe branch an append takes (URL key, name+address key,
\* no dedupe), the written table is every row read from the file, in the
\* file's order and with its cells, followed by a subsequence of the search
\* result in search order; when there is no URL column and the name or the
\* address column does not resolve, that subsequence is the whole result.
C11_AppendKeepsExisting ==
    Appended
    => /\ strategy \in {"url", "name_address", "none"}
       /\ \E S \in SUBSET (1..Len(new_rows)) : MergedIs(PickAt(new_rows, S))
       /\ (ColIndex(existing_df.cols, HMapsUrl) = 0 /\ (NameCol = 0 \/ AddrCol = 0))
          => (strategy = "none" /\ MergedIs(new_rows))

\* C11 witness: a file whose name column does not resolve got both new rows,
\* one of them the name and address of an existing row, after its two rows.
C11_Witness ==
    /\ Appended
    /\ strategy = "none"
    /\ existing_df.cols = <<Chars("Name"), HCompanyAddress>>
    /\ existing_df.rows = <<<<Txt(Chars("Alpha Dental")),
        Txt(Chars("123 Main St, Austin, TX"))>>, <<Txt(Chars("Beta Smiles")),
        Txt(Chars("456 Oak Ave, Austin, TX"))>>>>
    /\ new_rows = <<Business(Chars(" alpha  dental "), Chars("123   Main St, Austin, TX"),
        Chars("u1")), Business(Chars("Gamma Clinic"), Chars("789 Pine Rd, Austin, TX"),
        Chars("u3"))>>
    /\ Len(file.table.rows) = 4
    /\ OutCell(1, Chars("Name")) = Txt(Chars("Alpha Dental"))
    /\ OutCell(3, HCompanyName) = Txt(Chars(" alpha  dental "))
    /\ OutCell(3, Chars("Name")) = NaN

\* C29 as stated: a second append of the same search result to the file the
\* first append wrote adds no row, so that the file holds the table it held
\* after the first append.
C29_AppendIdempotent ==
    (pc = "done2" /\ append /\ new_rows # <<>>) =>
        /\ Len(file.table.rows) = Len(existing_df.rows)
        /\ CsvRoundTrip(file.table) = existing_df

\* --------------------------- enrich_with_website_data and generate_emails

\* Rows of the table a stage runs over.
MaxLeads == 2

\* str(e)[:50] in fetch_website, str(e)[:100] in generate_email, [:200] in
\* generate_brief.
RequestErrCap == 50
LlmErrCap == 100
BriefDescCap == 200

\* str.startswith(p)
StartsWith(s, p) == Len(s) >= Len(p) /\ SubSeq(s, 1, Len(p)) = p

\* s[:k]
Prefix(s, k) == SubSeq(s, 1, Min(k, Len(s)))

\* bool(val): NaN is a non-zero float and so true, '' and 0 are false.
Truthy(v) ==
    CASE v.k = "nan" -> TRUE
      [] v.k = "num" -> v.n # 0
      [] v.k = "str" -> v.s # <<>>
      [] OTHER -> FALSE

\* The cell of a column the table does not have: row.get gives None.
Absent == [k |-> "absent", n |-> 0, s |-> <<>>]

\* What session.get / raise_for_status gives fetch_website: a raised
\* Timeout, SSLError or other RequestException with its text, or a page with
\* its title, its description and the four social links found in it ('' for
\* a platform without a link), in the order LinkedIn, Facebook, Instagram,
\* Twitter.
WebExc(kind, text) == [kind |-> kind, text |-> text, title |-> <<>>, desc |-> <<>>,
                       links |-> <<<<>>, <<>>, <<>>, <<>>>>]
WebPage(title, desc, links) == [kind |-> "page", text |-> <<>>, title |-> title,
                                desc |-> desc, links |-> links]
WebResponses ==
    { WebExc("timeout", <<>>), WebExc("ssl", <<>>), WebExc("request", Chars("boom")),
      WebPage(Chars("Home"), Chars("Family  dentist "),
          <<Chars("https://linkedin.com/company/acme"), <<>>, <<>>, <<>>>>) }

\* What litellm.completion gives generate_email: a raised exception with its
\* text, or the content of the first choice.
LlmResponses ==
    { [kind |-> "exc", text |-> Chars("boom")], [kind |-> "ok", text |-> Chars(" Hi Acme ")] }

\* WebsiteEnricher.fetch_website: the page and no error, or an error text;
\* remote tells whether session.get was reached.
fetch_website(url, resp) ==
    IF ~Truthy(url) \/ IsNa(url)
    THEN [html |-> resp, error |-> Chars("No website URL"), remote |-> FALSE]
    ELSE CASE resp.kind = "timeout" -> [html |-> resp, error |-> Chars("Timeout"), remote |-> TRUE]
           [] resp.kind = "ssl" -> [html |-> resp, error |-> Chars("SSL Error"), remote |-> TRUE]
           [] resp.kind = "request" ->
                [html |-> resp, error |-> Chars("Request failed: ") \o Prefix(resp.text,
                    RequestErrCap),
                 remote |-> TRUE]
           [] OTHER -> [html |-> resp, error |-> <<>>, remote |-> TRUE]

\* WebsiteEnricher.generate_brief on the stripped title and description of
\* extract_content.
generate_brief(title, description, company_name) ==
    IF description # <<>>
    THEN company_name \o Chars(": ") \o Prefix(Strip(CollapseSpace(description)), BriefDescCap)
    ELSE IF title # <<>> THEN company_name \o Chars(" - ") \o title
    ELSE company_name

\* enrich_row reporting a failed fetch as 'No website available'.
enrich_row_sentinel(row, resp) ==
    LET f == fetch_website(row.website, resp)
    IN IF f.error # <<>>
       THEN [links |-> <<Txt(<<>>), Txt(<<>>), Txt(<<>>), Txt(<<>>)>>,
             brief |-> Txt(Chars("No website available")), remote |-> f.remote, failed |-> TRUE]
       ELSE [links |-> [k \in 1..4 |-> Txt(f.html.links[k])],
             brief |-> Txt(generate_brief(Strip(f.html.title), Strip(f.html.desc),
                                          StrOf(row.name))),
             remote |-> f.remote, failed |-> FALSE]

\* WebsiteEnricher.enrich_row: the values of the four social columns and of
\* Research Brief it returns.
enrich_row(row, resp) ==
    LET f == fetch_website(row.website, resp)
    IN IF f.error # <<>>
       THEN [links |-> <<Txt(<<>>), Txt(<<>>), Txt(<<>>), Txt(<<>>)>>,
             brief |-> Txt(Chars("Could not fetch: ") \o f.error), remote |-> f.remote,
             failed |-> TRUE]
       ELSE [links |-> [k \in 1..4 |-> Txt(f.html.links[k])],
             brief |-> Txt(generate_brief(Strip(f.html.title), Strip(f.html.desc),
                                          StrOf(row.name))),
             remote |-> f.remote, failed |-> FALSE]

\* EmailGenerator.generate_email: (email, error), <<>> standing for None.
generate_email(resp) ==
    IF resp.kind = "exc"
    THEN [email |-> <<>>, error |-> Chars("LLM error: ") \o Prefix(resp.text, LlmErrCap)]
    ELSE [email |-> Strip(resp.text), error |-> <<>>]

\* One handled row in stagelog: the stage, the pass and the row, what the loop body
\* did, whether it reached the remote call, whether that call failed, whether
\* the delay followed, and the value left in the stage's column.
Event(p, i, act, remote, failed, slept, value) ==
    [stage |-> stage, pass |-> p, row |-> i, act |-> act, remote |-> remote,
     failed |-> failed, slept |-> slept, value |-> value]

\* Line 563 of main.py: the row already has its research brief.
MainHasBrief(existing) ==
    Truthy(existing) /\ ~IsNa(existing) /\ ~StartsWith(StrOf(existing), Chars("Could not fetch"))

\* Line 175 of scraper_adapter.py: the row already has its research brief.
AdapterHasBrief(existing) ==
    /\ Truthy(existing) /\ ~IsNa(existing) /\ Strip(StrOf(existing)) # <<>>
    /\ ~StartsWith(StrOf(existing), Chars("Could not"))

\* Line 591 of main.py: the row already has its email.
MainHasEmail(existing) ==
    Truthy(existing) /\ ~IsNa(existing) /\ Strip(StrOf(existing)) # <<>>

\* Line 215 of scraper_adapter.py: the row already has its email.
AdapterHasEmail(existing) ==
    /\ Truthy(existing) /\ ~IsNa(existing) /\ Strip(StrOf(existing)) # <<>>
    /\ ~StartsWith(StrOf(existing), Chars("Error"))

\* The loop body of GoogleMapsReviewScraper.enrich_with_website_data for one
\* row: the row afterwards and what was done.
MainWebsiteBody(p, i, row, resp) ==
    LET r == enrich_row(row, resp)
    IN IF MainHasBrief(row.brief)
       THEN [row |-> row, ev |-> Event(p, i, "skip", FALSE, FALSE, FALSE, row.brief)]
       ELSE IF ~Truthy(row.website) \/ IsNa(row.website)
       THEN [row |-> [row EXCEPT !.brief = Txt(Chars("No website available"))],
             ev |-> Event(p, i, "nosite", FALSE, FALSE, FALSE, Txt(Chars("No website available")))]
       ELSE [row |-> [row EXCEPT !.links = r.links, !.brief = r.brief],
             ev |-> Event(p, i, "enrich", r.remote, r.failed, TRUE, r.brief)]

\* The loop body of scraper_adapter.enrich_with_website_data for one row.
AdapterWebsiteBody(p, i, row, resp) ==
    LET r == enrich_row(row, resp)
    IN IF AdapterHasBrief(row.brief)
       THEN [row |-> row, ev |-> Event(p, i, "skip", FALSE, FALSE, FALSE, row.brief)]
       ELSE [row |-> [row EXCEPT !.links = r.links, !.brief = r.brief],
             ev |-> Event(p, i, "enrich", r.remote, r.failed, TRUE, r.brief)]

\* What both generate_emails loops do with a row they do not skip.
StoreEmail(p, i, row, resp) ==
    LET g == generate_email(resp)
        email == IF g.error # <<>> THEN Txt(Chars("Error: ") \o g.error) ELSE Txt(g.email)
    IN [row |-> [row EXCEPT !.email = email],
        ev |-> Event(p, i, "generate", TRUE, g.error # <<>>, TRUE, email)]

\* The loop body of GoogleMapsReviewScraper.generate_emails for one row.
MainEmailBody(p, i, row, resp) ==
    IF MainHasEmail(row.email)
    THEN [row |-> row, ev |-> Event(p, i, "skip", FALSE, FALSE, FALSE, row.email)]
    ELSE StoreEmail(p, i, row, resp)

\* The loop body of scraper_adapter.generate_emails for one row.
AdapterEmailBody(p, i, row, resp) ==
    IF AdapterHasEmail(row.email)
    THEN [row |-> row, ev |-> Event(p, i, "skip", FALSE, FALSE, FALSE, row.email)]
    ELSE StoreEmail(p, i, row, resp)

\* f"{value}" of a cell: NaN prints as 'nan'.
FormatCell(v) == IF IsNa(v) THEN Chars("nan") ELSE StrOf(v)

\* _get_place_field on one key of a search result: '' when the value is None.
get_place_field(v) == IF IsNa(v) THEN Txt(<<>>) ELSE v

\* What search_businesses(query, max_results=1) may return: no business, or
\* one, whose rating and count are None when the place has none.
ReviewSearchResults ==
    { <<>>, <<[rating |-> Num(5), count |-> Num(9)]>>, <<[rating |-> NaN, count |-> NaN]>> }

\* The loop body of enrich_with_reviews skipping every row that has a rating.
AdapterReviewsBodyRatingOnly(p, i, row, results) ==
    LET found == [row EXCEPT !.rating = get_place_field(results[1].rating),
                             !.count = get_place_field(results[1].count)]
        after == IF results # <<>> THEN found ELSE row
    IN IF has_value(row.rating)
       THEN [row |-> row, calls |-> <<>>,
             ev |-> Event(p, i, "skip", FALSE, FALSE, FALSE, row.rating)]
       ELSE IF Truthy(row.name)
       THEN [row |-> after,
             calls |-> <<[row |-> i, max_results |-> 1, results |-> results,
                          query |-> FormatCell(row.name) \o <<" ">> \o FormatCell(row.addr)]>>,
             ev |-> Event(p, i, "search", TRUE, results = <<>>, TRUE, after.rating)]
       ELSE [row |-> row, calls |-> <<>>,
             ev |-> Event(p, i, "noname", FALSE, FALSE, TRUE, row.rating)]

\* The loop body of scraper_adapter.enrich_with_reviews for one row: the row
\* afterwards, what was done, and the calls made to the search method (with
\* what each returned).
AdapterReviewsBody(p, i, row, results) ==
    LET found == [row EXCEPT !.rating = get_place_field(results[1].rating),
                             !.count = get_place_field(results[1].count)]
        after == IF results # <<>> THEN found ELSE row
    IN IF has_value(row.rating) /\ has_value(row.count)
       THEN [row |-> row, calls |-> <<>>,
             ev |-> Event(p, i, "skip", FALSE, FALSE, FALSE, row.rating)]
       ELSE IF Truthy(row.name)
       THEN [row |-> after,
             calls |-> <<[row |-> i, max_results |-> 1, results |-> results,
                          query |-> FormatCell(row.name) \o <<" ">> \o FormatCell(row.addr)]>>,
             ev |-> Event(p, i, "search", TRUE, results = <<>>, TRUE, after.rating)]
       ELSE [row |-> row, calls |-> <<>>,
             ev |-> Event(p, i, "noname", FALSE, FALSE, TRUE, row.rating)]

\* A lead row: name, address, rating, review count, website, the four social
\* columns, research brief, email.
Lead(website, links, brief, email) ==
    [name |-> Txt(Chars("Acme")), addr |-> Txt(Chars("1 M")), rating |-> Num(4),
     count |-> Num(12), website |-> website, links |-> links, brief |-> brief,
     email |-> email]

\* Tables of rows that have the columns of both stages, as a search left
\* them in memory ('' cells) and as read_csv gives them (NaN cells), and
\* tables of rows that have none of the stage columns yet.
LeadTables ==
    SeqsUpTo(
    { Lead(Txt(Chars("a.com")), [k \in 1..4 |-> Txt(<<>>)], Txt(<<>>), Txt(<<>>)),
      Lead(Txt(<<>>), [k \in 1..4 |-> Txt(<<>>)], Txt(<<>>), Txt(<<>>)),
      Lead(NaN, [k \in 1..4 |-> NaN], NaN, NaN),
      Lead(Txt(Chars("a.com")), <<Txt(Chars("https://linkedin.com/company/acme")), NaN, NaN, NaN>>,
           NaN, NaN),
      Lead(Txt(Chars("a.com")), <<Txt(Chars("https://linkedin.com/company/acme")), NaN, NaN, NaN>>,
           Txt(generate_brief(Chars("Home"), <<>>, Chars("Acme"))),
               Txt(Strip(Chars(" Hi Acme ")))) }, MaxLeads)
    \cup SeqsUpTo(
    { Lead(Txt(Chars("a.com")), [k \in 1..4 |-> Absent], Absent, Absent),
      Lead(NaN, [k \in 1..4 |-> Absent], Absent, Absent) }, MaxLeads)

\* Rows for the reviews stage: name, rating and count vary; a table has the
\* two review columns, or (the last sample) has neither.
ReviewSamples ==
    LET base == Lead(Txt(Chars("a.com")), [k \in 1..4 |-> Absent], Absent, Absent)
    IN { [base EXCEPT !.name = d[1], !.rating = d[2], !.count = d[3]] :
           d \in { <<Txt(Chars("Acme")), Num(4), Num(12)>>,
                   <<Txt(Chars("Acme")), NaN, NaN>>,
                   <<Txt(Chars("Acme")), Num(4), Txt(<<>>)>>,
                   <<Txt(Chars("Acme")), Txt(NotFound), Txt(NotFound)>>,
                   <<Txt(<<>>), Txt(<<>>), Txt(<<>>)>>,
                   <<NaN, NaN, Num(12)>> } }

ReviewTables ==
    SeqsUpTo(ReviewSamples, MaxLeads)
    \cup SeqsUpTo({[r EXCEPT !.rating = Absent, !.count = Absent] :
                     r \in {q \in ReviewSamples : q.name = Txt(Chars("Acme"))}}, MaxLeads)

\* df[col] = '' for a column the table does not have.
Created(cell) == IF cell = Absent THEN Txt(<<>>) ELSE cell

\* to_csv then read_csv of the stage's table.
LeadsRoundTrip(t) ==
    [i \in 1..Len(t) |->
        [name |-> CsvCell(t[i].name), addr |-> CsvCell(t[i].addr),
         rating |-> CsvCell(t[i].rating), count |-> CsvCell(t[i].count),
         website |-> CsvCell(t[i].website),
         links |-> [k \in 1..4 |-> CsvCell(t[i].links[k])],
         brief |-> CsvCell(t[i].brief), email |-> CsvCell(t[i].email)]]

InitStages ==
    /\ pc = "begin"
    /\ impl \in {"main", "adapter"}
    /\ stage \in {"reviews", "web", "email"}
    /\ stage = "reviews" => impl = "adapter"
    /\ leads \in IF stage = "reviews" THEN ReviewTables ELSE LeadTables
    /\ lrow = 1
    /\ pass = "first"
    /\ stagelog = <<>>
    /\ progress = <<>>
    /\ searches = <<>>
    /\ enabled = {}
    /\ CsvIdle
    /\ SearchIdle
    /\ AppendIdle
    /\ PureIdle
    /\ CallsIdle

\* The head of a stage: the stage's columns are created, filled with
\* '', where the table lacks them.
StageBegin ==
    /\ pc = "begin"
    /\ pc' = "rows"
    /\ lrow' = 1
    /\ leads' = [i \in 1..Len(leads) |->
                    IF stage = "web"
                    THEN [leads[i] EXCEPT !.links = [k \in 1..4 |-> Created(leads[i].links[k])],
                                          !.brief = Created(leads[i].brief)]
                    ELSE IF stage = "reviews"
                    THEN [leads[i] EXCEPT !.rating = Created(leads[i].rating),
                                          !.count = Created(leads[i].count)]
                    ELSE [leads[i] EXCEPT !.email = Created(leads[i].email)]]
    /\ UNCHANGED <<impl, stage, pass, stagelog, watchVars, enabled,
                   csvVars, searchVars, appendVars, pureVars, callVars>>

\* One iteration of the loop of scraper_adapter.enrich_with_reviews.
AdapterReviewsRow ==
    /\ pc = "rows" /\ impl = "adapter" /\ stage = "reviews" /\ lrow <= Len(leads)
    /\ \E results \in ReviewSearchResults :
         LET b == AdapterReviewsBody(pass, lrow, leads[lrow], results)
         IN /\ leads' = [leads EXCEPT ![lrow] = b.row]
            /\ stagelog' = Append(stagelog, b.ev)
            /\ searches' = searches \o b.calls
    /\ progress' = Append(progress, <<lrow, Len(leads)>>)
    /\ lrow' = lrow + 1
    /\ UNCHANGED <<pc, impl, stage, pass, enabled, csvVars, searchVars, appendVars, pureVars, callVars>>

\* One iteration of the loop of GoogleMapsReviewScraper.enrich_with_website_data.
MainWebsiteRow ==
    /\ pc = "rows" /\ impl = "main" /\ stage = "web" /\ lrow <= Len(leads)
    /\ \E resp \in WebResponses :
         LET b == MainWebsiteBody(pass, lrow, leads[lrow], resp)
         IN /\ leads' = [leads EXCEPT ![lrow] = b.row]
            /\ stagelog' = Append(stagelog, b.ev)
    /\ lrow' = lrow + 1
    /\ UNCHANGED <<pc, impl, stage, pass, watchVars, enabled,
                   csvVars, searchVars, appendVars, pureVars, callVars>>

\* One iteration of the loop of scraper_adapter.enrich_with_website_data.
AdapterWebsiteRow ==
    /\ pc = "rows" /\ impl = "adapter" /\ stage = "web" /\ lrow <= Len(leads)
    /\ \E resp \in WebResponses :
         LET b == AdapterWebsiteBody(pass, lrow, leads[lrow], resp)
         IN /\ leads' = [leads EXCEPT ![lrow] = b.row]
            /\ stagelog' = Append(stagelog, b.ev)
    /\ lrow' = lrow + 1
    /\ progress' = Append(progress, <<lrow, Len(leads)>>)
    /\ UNCHANGED <<pc, impl, stage, pass, searches, enabled,
                   csvVars, searchVars, appendVars, pureVars, callVars>>

\* One iteration of the loop of GoogleMapsReviewScraper.generate_emails.
MainEmailRow ==
    /\ pc = "rows" /\ impl = "main" /\ stage = "email" /\ lrow <= Len(leads)
    /\ \E resp \in LlmResponses :
         LET b == MainEmailBody(pass, lrow, leads[lrow], resp)
         IN /\ leads' = [leads EXCEPT ![lrow] = b.row]
            /\ stagelog' = Append(stagelog, b.ev)
    /\ lrow' = lrow + 1
    /\ UNCHANGED <<pc, impl, stage, pass, watchVars, enabled,
                   csvVars, searchVars, appendVars, pureVars, callVars>>

\* The loop of generate_emails telling the observer of generated rows only.
AdapterEmailRowQuietSkip ==
    /\ pc = "rows" /\ impl = "adapter" /\ stage = "email" /\ lrow <= Len(leads)
    /\ \E resp \in LlmResponses :
         LET b == AdapterEmailBody(pass, lrow, leads[lrow], resp)
         IN /\ leads' = [leads EXCEPT ![lrow] = b.row]
            /\ stagelog' = Append(stagelog, b.ev)
            /\ progress' = IF b.ev.act = "skip" THEN progress
                           ELSE Append(progress, <<lrow, Len(leads)>>)
    /\ lrow' = lrow + 1
    /\ UNCHANGED <<pc, impl, stage, pass, searches, enabled,
                   csvVars, searchVars, appendVars, pureVars, callVars>>

\* One iteration of the loop of scraper_adapter.generate_emails.
AdapterEmailRow ==
    /\ pc = "rows" /\ impl = "adapter" /\ stage = "email" /\ lrow <= Len(leads)
    /\ \E resp \in LlmResponses :
         LET b == AdapterEmailBody(pass, lrow, leads[lrow], resp)
         IN /\ leads' = [leads EXCEPT ![lrow] = b.row]
            /\ stagelog' = Append(stagelog, b.ev)
    /\ lrow' = lrow + 1
    /\ progress' = Append(progress, <<lrow, Len(leads)>>)
    /\ UNCHANGED <<pc, impl, stage, pass, searches, enabled,
                   csvVars, searchVars, appendVars, pureVars, callVars>>

\* The loop is over: the stage returns the table.
StageReturn ==
    /\ pc = "rows" /\ lrow > Len(leads)
    /\ pc' = "returned"
    /\ UNCHANGED <<impl, stage, leads, lrow, pass, stagelog, watchVars, enabled,
                   csvVars, searchVars, appendVars, pureVars, callVars>>

\* The same stage is run again on the table it returned.
RerunInMemory ==
    /\ pc = "returned" /\ pass = "first"
    /\ pc' = "begin" /\ pass' = "later"
    /\ UNCHANGED <<impl, stage, leads, lrow, stagelog, watchVars, enabled,
                   csvVars, searchVars, appendVars, pureVars, callVars>>

\* The same stage is run again on the table read back from the file the
\* first run's result was written to.
RerunFromCsv ==
    /\ pc = "returned" /\ pass = "first"
    /\ pc' = "begin" /\ pass' = "later"
    /\ leads' = LeadsRoundTrip(leads)
    /\ UNCHANGED <<impl, stage, lrow, stagelog, watchVars, enabled,
                   csvVars, searchVars, appendVars, pureVars, callVars>>

NextStages ==
    \/ StageBegin
    \/ AdapterReviewsRow
    \/ MainWebsiteRow \/ AdapterWebsiteRow \/ MainEmailRow \/ AdapterEmailRow
    \/ StageReturn \/ RerunInMemory \/ RerunFromCsv

SpecStages == InitStages /\ [][NextStages]_vars

\* The order in which both enrichment flows of app.py run the stages.
StageOrder == <<"reviews", "web", "email">>

\* The ticked stages that come after position k of StageOrder.
EnabledAfter(k) == {j \in (k + 1)..Len(StageOrder) : StageOrder[j] \in enabled}

\* Position in StageOrder of the stage that ran last (0 before the first).
StagePos == IF stage = "" THEN 0 ELSE CHOOSE k \in 1..Len(StageOrder) : StageOrder[k] = stage

\* Tables the flows start from: the result of adapter.search_places (no
\* stage column but the two review columns, '' for what a place lacks), and
\* an uploaded file that has all columns.
DriverTables ==
    SeqsUpTo({ [r EXCEPT !.rating = d[1], !.count = d[2], !.website = d[3]] :
                 r \in {Lead(NaN, [k \in 1..4 |-> Absent], Absent, Absent)},
                 d \in { <<Txt(<<>>), Txt(<<>>), Txt(Chars("a.com"))>>,
                         <<Num(4), Num(12), Txt(<<>>)>> } }, MaxLeads)
    \cup SeqsUpTo({ Lead(Txt(Chars("a.com")), [k \in 1..4 |-> NaN], NaN, NaN),
                    Lead(Txt(Chars("a.com")), [k \in 1..4 |-> NaN], Txt(Chars("Acme")),
                         Txt(Chars("Hi Acme"))) }, MaxLeads)

\* 'Run Full Enrichment' once the table is there: no stage has run yet.
InitDriver ==
    /\ pc = "driver"
    /\ impl = "adapter"
    /\ stage = ""
    /\ enabled \in SUBSET {"reviews", "web", "email"}
    /\ leads \in DriverTables
    /\ lrow = 1
    /\ pass = "first"
    /\ stagelog = <<>>
    /\ progress = <<>>
    /\ searches = <<>>
    /\ CsvIdle
    /\ SearchIdle
    /\ AppendIdle
    /\ PureIdle
    /\ CallsIdle

\* The flow running the website stage ahead of the reviews stage.
DriverNextStageWebFirst ==
    /\ pc \in {"driver", "returned"}
    /\ LET order == <<"web", "reviews", "email">>
           pos == IF stage = "" THEN 0 ELSE CHOOSE k \in 1..3 : order[k] = stage
           after == {j \in (pos + 1)..3 : order[j] \in enabled}
       IN IF after = {}
          THEN pc' = "done" /\ UNCHANGED stage
          ELSE /\ pc' = "begin"
               /\ stage' = order[CHOOSE j \in after : \A m \in after : j <= m]
    /\ UNCHANGED <<impl, leads, lrow, pass, stagelog, watchVars, enabled,
                   csvVars, searchVars, appendVars, pureVars, callVars>>

\* The flow between two stages: the next ticked stage is called on the
\* table the previous one returned; after the last one the table is stored
\* in the session.
DriverNextStage ==
    /\ pc \in {"driver", "returned"}
    /\ IF EnabledAfter(StagePos) = {}
       THEN pc' = "done" /\ UNCHANGED stage
       ELSE /\ pc' = "begin"
            /\ stage' = StageOrder[CHOOSE j \in EnabledAfter(StagePos) :
                                     \A m \in EnabledAfter(StagePos) : j <= m]
    /\ UNCHANGED <<impl, leads, lrow, pass, stagelog, watchVars, enabled,
                   csvVars, searchVars, appendVars, pureVars, callVars>>

NextDriver ==
    \/ DriverNextStage \/ StageBegin
    \/ AdapterReviewsRow \/ AdapterWebsiteRow \/ AdapterEmailRow
    \/ StageReturn

SpecDriver == InitDriver /\ [][NextDriver]_vars

\* ------------------------------------------------------- stages: properties

\* The entries of stagelog of the first and of the later pass.
FirstPass == {k \in 1..Len(stagelog) : stagelog[k].pass = "first"}
LaterPass == {k \in 1..Len(stagelog) : stagelog[k].pass = "later"}

\* Entry m is the later pass handling the row entry k handled in the first.
SameRowLater(k, m) ==
    k \in FirstPass /\ m \in LaterPass /\ stagelog[m].row = stagelog[k].row

\* C12: in main.py's and in the adapter's generate_emails a failed
\* generation call leaves 'Error: <reason>' in Generated Email, and a later
\* pass over the table does not skip that row but calls the generator for it
\* again.
C12_ErrorEmailRetried ==
    stage = "email"
    => \A k \in FirstPass :
         (stagelog[k].act = "generate" /\ stagelog[k].failed)
         => /\ StartsWith(stagelog[k].value.s, Chars("Error: "))
            /\ Len(stagelog[k].value.s) > Len(Chars("Error: "))
            /\ \A m \in LaterPass :
                 SameRowLater(k, m) => (stagelog[m].act = "generate" /\ stagelog[m].remote)

\* The prefix the claims give for a failed fetch.
CouldNotFetchPrefix == SubSeq(Chars("Could not fetch: "), 1, Len(Chars("Could not fetch")) + 1)

\* C13: in main.py's and in the adapter's enrich_with_website_data a website
\* fetch that fails (timeout, TLS error, other request error) leaves a
\* Research Brief starting with 'Could not fetch:', and a later pass over the
\* table does not skip that row but fetches its website again.
C13_FailedFetchRetried ==
    stage = "web"
    => \A k \in FirstPass :
         (stagelog[k].act = "enrich" /\ stagelog[k].remote /\ stagelog[k].failed)
         => /\ StartsWith(stagelog[k].value.s, CouldNotFetchPrefix)
            /\ \A m \in LaterPass :
                 SameRowLater(k, m) => (stagelog[m].act = "enrich" /\ stagelog[m].remote)

\* C13 witness: the adapter's fetch of a row timed out, the table went
\* through a file, and the later pass fetched the row's website again, this
\* time with a page.
C13_Witness ==
    /\ stage = "web" /\ impl = "adapter" /\ pass = "later"
    /\ Len(leads) = 2 /\ Len(stagelog) = 4
    /\ stagelog[2].remote /\ stagelog[2].failed
    /\ stagelog[2].value = Txt(Chars("Could not fetch: ") \o Chars("Timeout"))
    /\ stagelog[4].remote /\ ~stagelog[4].failed
    /\ leads[2].brief = Txt(generate_brief(Chars("Home"), Strip(Chars("Family  dentist ")),
        Chars("Acme")))
    /\ leads[1].website = NaN

\* The code's test for a missing Website (main.py line 567, fetch_website
\* line 103) on the row entry k handled; a stage never writes the column.
WebsiteMissing(k) ==
    ~Truthy(leads[stagelog[k].row].website) \/ IsNa(leads[stagelog[k].row].website)

\* C14: in main.py's and in the adapter's enrich_with_website_data a row
\* without a complete research brief whose Website is missing gets the
\* Research Brief 'No website available', with no remote fetch and no delay,
\* and a later pass skips the row as complete.
C14_NoWebsiteSentinel ==
    stage = "web"
    => \A k \in 1..Len(stagelog) :
         (stagelog[k].act # "skip" /\ WebsiteMissing(k))
         => /\ stagelog[k].value = Txt(Chars("No website available"))
            /\ ~stagelog[k].remote
            /\ ~stagelog[k].slept
            /\ \A m \in LaterPass : SameRowLater(k, m) => stagelog[m].act = "skip"

\* A step of the website stage that handled a row with a failed fetch.
FailedFetchStep ==
    /\ stage = "web" /\ pc = "rows" /\ lrow' = lrow + 1
    /\ stagelog'[Len(stagelog')].act = "enrich"
    /\ stagelog'[Len(stagelog')].failed

\* C28 as stated: handling a row whose website fetch fails changes the row's
\* Research Brief only; its four social links and its other fields are what
\* they were before (an empty cell counting as the same value whether it is
\* '' or NaN).
C28_FailedFetchMergesBriefOnly ==
    [][FailedFetchStep =>
         /\ \A k \in 1..4 : CsvCell(leads'[lrow].links[k]) = CsvCell(leads[lrow].links[k])
         /\ leads'[lrow].name = leads[lrow].name
         /\ leads'[lrow].website = leads[lrow].website
         /\ leads'[lrow].email = leads[lrow].email]_vars

\* A review cell that holds something: a number, or text that is not blank.
ReviewPresent(v) == v.k = "num" \/ (v.k = "str" /\ ~AllSpace(v.s))

\* A step of the adapter's reviews stage that handled the row at lrow.
ReviewsStep == stage = "reviews" /\ pc = "rows" /\ lrow' = lrow + 1

\* The calls to the search method made by the step.
NewSearches == SubSeq(searches', Len(searches) + 1, Len(searches'))

\* C26: enrich_with_reviews makes no search call for a row whose rating and
\* count are both present, and leaves the row as it was; for a row that
\* misses one of them and has a non-empty name it makes exactly one search
\* call, with the query '<name> <address>' and max_results = 1, and when the
\* call returns a business the row's rating and count are that business's
\* (an empty cell where the business has none).
C26_ReviewsSearchOncePerMissingRow ==
    [][ReviewsStep =>
         LET row == leads[lrow]
             after == leads'[lrow]
         IN /\ (ReviewPresent(row.rating) /\ ReviewPresent(row.count))
               => NewSearches = <<>> /\ after = row
            /\ (~(ReviewPresent(row.rating) /\ ReviewPresent(row.count))
                /\ row.name.k = "str" /\ row.name.s # <<>>)
               => /\ Len(NewSearches) = 1
                  /\ NewSearches[1].query = row.name.s \o <<" ">> \o row.addr.s
                  /\ NewSearches[1].max_results = 1
                  /\ NewSearches[1].results # <<>>
                     => /\ CsvCell(after.rating) = CsvCell(NewSearches[1].results[1].rating)
                        /\ CsvCell(after.count) = CsvCell(NewSearches[1].results[1].count)]_vars

\* C26 witness: of two rows the first, complete, was skipped and the second,
\* without a count, was searched for once and took the business's values.
C26_Witness ==
    /\ stage = "reviews" /\ pc = "returned" /\ pass = "first" /\ Len(leads) = 2
    /\ stagelog[1].act = "skip" /\ stagelog[2].act = "search"
    /\ Len(searches) = 1 /\ searches[1].row = 2
    /\ searches[1].query = Chars("Acme 1 M")
    /\ leads[1].rating = Num(4) /\ leads[1].count = Num(12)
    /\ leads[2].rating = Num(5) /\ leads[2].count = Num(9)

\* C27: in the three adapter stages the observer has been told once of every
\* row handled so far, skipped, fetched or failed, and of nothing else: in a
\* pass over N rows the notifications are (1, N), (2, N), ... in this order,
\* up to (N, N) when the stage returns.
C27_ProgressOncePerRow ==
    impl = "adapter" =>
        LET N == Len(leads)
            handled == IF pc = "begin" THEN 0 ELSE lrow - 1
            before == IF pass = "later" THEN N ELSE 0
        IN /\ Len(progress) = before + handled
           /\ Len(progress) = Len(stagelog)
           /\ \A j \in 1..Len(progress) : progress[j] = <<((j - 1) % N) + 1, N>>
           /\ pc = "returned" => handled = N

\* C27 witness: the website stage skipped the first of two rows and failed
\* to fetch the second; the observer was told (1, 2), then (2, 2).
C27_Witness ==
    /\ impl = "adapter" /\ stage = "web" /\ pc = "returned" /\ pass = "first"
    /\ Len(stagelog) = 2
    /\ stagelog[1].act = "skip" /\ stagelog[2].act = "enrich" /\ stagelog[2].failed
    /\ progress = <<<<1, 2>>, <<2, 2>>>>

\* Position of a stage name in StageOrder.
StageRank(st) == CHOOSE k \in 1..Len(StageOrder) : StageOrder[k] = st

\* The rows stage st has handled among the first k events of the log.
HandledBy(st, k) == {stagelog[j].row : j \in {m \in 1..k : stagelog[m].stage = st}}

\* C23: in an enrichment flow of the UI the ticked stages run one after
\* another in the order reviews, website, email: when a stage handles a row,
\* every ticked stage before it has handled all rows, no stage after it has
\* handled any, and the stage itself has handled exactly the rows above it.
C23_StagesRunInOrder ==
    \A k \in 1..Len(stagelog) :
        LET ev == stagelog[k]
        IN /\ ev.stage \in enabled
           /\ HandledBy(ev.stage, k - 1) = 1..(ev.row - 1)
           /\ \A st \in enabled :
                 /\ StageRank(st) < StageRank(ev.stage)
                      => HandledBy(st, k - 1) = 1..Len(leads)
                 /\ StageRank(st) > StageRank(ev.stage)
                      => HandledBy(st, k - 1) = {}

\* C23 witness: a flow with all three stages ticked has ended on two rows:
\* reviews handled rows 1 and 2, then website, then email.
C23_Witness ==
    /\ pc = "done" /\ enabled = {"reviews", "web", "email"} /\ Len(leads) = 2
    /\ [k \in 1..Len(stagelog) |-> <<stagelog[k].stage, stagelog[k].row>>]
         = << <<"reviews", 1>>, <<"reviews", 2>>, <<"web", 1>>, <<"web", 2>>,
              <<"email", 1>>, <<"email", 2>> >>
    /\ searches # <<>>

\* ------------------------------------------------------------- find_column

\* Columns of the table find_column searches.
MaxCols == 2

\* Headers of a table.
HeaderSamples ==
    { HBusinessName, HCompanyName, Chars("business_name"), Chars("Name"), HBusinessAddress,
        HCompanyAddress }

InitFind ==
    /\ pc = "call"
    /\ args \in [cols : { c \in SeqsUpTo(HeaderSamples, MaxCols) :
                            \A i, j \in 1..Len(c) : c[i] = c[j] => i = j },
                  column_name : { HBusinessName, Chars("business_name"),
                                  Chars("Business-Name"), Chars("Business  Name"),
                                  HCompanyName, Chars("Name"), HMapsUrl }]
    /\ result = <<>>
    /\ CsvIdle
    /\ SearchIdle
    /\ AppendIdle
    /\ StagesIdle
    /\ CallsIdle

\* find_column(df, column_name): result holds the position of the column
\* returned, 0 for None.
FindColumn ==
    /\ pc = "call"
    /\ pc' = "returned"
    /\ result' = <<find_column(args.cols, args.column_name)>>
    /\ UNCHANGED <<args, csvVars, searchVars, appendVars, stageVars, callVars>>

NextFind == FindColumn

SpecFind == InitFind /\ [][NextFind]_vars

\* The normalization the claim describes: lower case, and '_', '-' and every
\* run of whitespace turned into one space.
ClaimNorm(h) == CollapseSpace(ReplacePunct(Lower(h)))

\* C15: find_column returns the first column whose header is normalized-equal
\* to the name (lower case, '_', '-' and whitespace runs as one space) and
\* None when there is none; on the single header 'Business Name' each of
\* 'Business Name', 'business_name', 'Business-Name' and 'Business  Name'
\* resolves to it.
C15_FindColumnNormalized ==
    pc = "returned"
    => LET hits == {k \in 1..Len(args.cols) :
                      ClaimNorm(args.cols[k]) = ClaimNorm(args.column_name)}
       IN /\ result = <<IF hits = {} THEN 0 ELSE CHOOSE k \in hits : \A m \in hits : k <= m>>
          /\ (/\ args.cols = <<HBusinessName>>
              /\ args.column_name \in {HBusinessName, Chars("business_name"),
                  Chars("Business-Name"), Chars("Business  Name")})
             => result = <<1>>

\* ------------------------------------------------- is_valid and _has_value

\* Values of a rating or review-count cell; Num(0) is the number 0 or 0.0,
\* which no test of either function tells apart.
CellSamples ==
    { NaN, Txt(<<>>), Txt(Chars(" \t")), Txt(NotFound), Txt(Chars(" Not Found ")),
      Txt(Chars("not found")), Txt(Chars("N/A")), Txt(Chars("0")), Num(0), Num(4),
          Txt(Chars("u1")) }

\* The verdicts of one of the two functions on the rating and the count.
Verdict(by, rating, count) == [by |-> by, rating |-> rating, count |-> count]

InitComplete ==
    /\ pc = "call"
    /\ args \in [rating : CellSamples, count : CellSamples]
    /\ result = <<>>
    /\ CsvIdle
    /\ SearchIdle
    /\ AppendIdle
    /\ StagesIdle
    /\ CallsIdle

\* Lines 693-694 of main.py: process_csv classifies the row's rating and count.
IsValidCall ==
    /\ pc = "call"
    /\ \A k \in 1..Len(result) : result[k].by # "is_valid"
    /\ result' = Append(result, Verdict("is_valid", is_valid(args.rating), is_valid(args.count)))
    /\ UNCHANGED <<pc, args, csvVars, searchVars, appendVars, stageVars, callVars>>

\* Lines 125-128 of scraper_adapter.py: enrich_with_reviews classifies them.
HasValueCall ==
    /\ pc = "call"
    /\ \A k \in 1..Len(result) : result[k].by # "_has_value"
    /\ result' = Append(result, Verdict("_has_value", has_value(args.rating),
                                        has_value(args.count)))
    /\ UNCHANGED <<pc, args, csvVars, searchVars, appendVars, stageVars, callVars>>

NextComplete == IsValidCall \/ HasValueCall

SpecComplete == InitComplete /\ [][NextComplete]_vars

\* The text is 'Not Found' with nothing but whitespace before and after it.
PaddedNotFound(s) ==
    \E i \in 0..(Len(s) - Len(NotFound)) :
        /\ SubSeq(s, i + 1, i + Len(NotFound)) = NotFound
        /\ AllSpace(SubSeq(s, 1, i))
        /\ AllSpace(SubSeq(s, i + Len(NotFound) + 1, Len(s)))

\* The values the claim lists as missing.
ListedMissing(v) == v.k = "nan" \/ (v.k = "str" /\ (AllSpace(v.s) \/ v.s = NotFound))

\* The values is_valid takes for missing.
TrimmedMissing(v) == v.k = "nan" \/ (v.k = "str" /\ (AllSpace(v.s) \/ PaddedNotFound(v.s)))

\* C16 as stated: is_valid reports missing for the absent value, '', an
\* all-whitespace string and 'Not Found', and present for every other value.
C16_MissingExactlyListed ==
    \A k \in 1..Len(result) :
        result[k].by = "is_valid"
        => /\ result[k].rating = ~ListedMissing(args.rating)
           /\ result[k].count = ~ListedMissing(args.count)

\* C16 amended: is_valid reports missing for the absent value and for a text
\* that is '' or 'Not Found' once surrounding whitespace is removed, and
\* present for every other value, the number 0 included.
C16_MissingAfterTrim ==
    \A k \in 1..Len(result) :
        result[k].by = "is_valid"
        => /\ result[k].rating = ~TrimmedMissing(args.rating)
           /\ result[k].count = ~TrimmedMissing(args.count)

\* C16 witness: is_valid took a rating of 0 for present and a count of
\* ' Not Found ' for missing.
C16_Witness ==
    /\ args = [rating |-> Num(0), count |-> Txt(Chars(" Not Found "))]
    /\ \E k \in 1..Len(result) :
         result[k] = Verdict("is_valid", TRUE, FALSE)

\* C17: is_valid and _has_value give the same present/missing answer for
\* every value of the rating and of the review count, so process_csv and the
\* adapter's enrich_with_reviews make the same skip-or-fetch decision.
C17_SamePredicate ==
    \A k, m \in 1..Len(result) :
        /\ result[k].rating = result[m].rating
        /\ result[k].count = result[m].count

\* ------------------------------------------------------------ search_place

\* Answers of the text-search endpoint: a raised exception, or any status
\* with a body that has no 'places' key, an empty list or a list of places,
\* and an error message or none.
SearchPlaceResponses ==
    { Exc(m) : m \in {"timeout", "reset", "bad json"} }
    \cup { Http(st, kd, ps, m) :
             st \in {200, 400, 403, 404, 429, 500},
             kd \in BOOLEAN,
             ps \in {<<>>, <<"p1">>, <<"p1", "p2">>, <<"p2", "p1">>},
             m \in {"", "quota", "denied"} }

InitFindId ==
    /\ pc = "call"
    /\ args \in {r \in SearchPlaceResponses : ~r.keyed => r.places = <<>>}
    /\ result = <<>>
    /\ CsvIdle
    /\ SearchIdle
    /\ AppendIdle
    /\ StagesIdle
    /\ CallsIdle

\* search_place(business_name, business_address) against the answer in args.
SearchPlace ==
    /\ pc = "call"
    /\ pc' = "returned"
    /\ result' = <<search_place(args)>>
    /\ UNCHANGED <<args, csvVars, searchVars, appendVars, stageVars, callVars>>

NextFindId == SearchPlace

SpecFindId == InitFindId /\ [][NextFindId]_vars

\* C18: search_place returns exactly one of (place id, error): the first
\* place's id and no error for a 200 answer with a non-empty places list;
\* no id and 'Business not found on Google Maps' for a 200 answer whose
\* places list is empty or absent; no id and an API or exception message,
\* never the not-found message, for any other status or a raised exception.
C18_FindIdOutcomes ==
    pc = "returned"
    => LET r == result[1]
           listed == args.kind = "http" /\ args.keyed /\ args.places # <<>>
       IN /\ (r.place_id # "") # (r.error # NoError)
          /\ (args.kind = "http" /\ args.status = 200 /\ listed)
             => (r.place_id = args.places[1] /\ r.error = NoError)
          /\ (args.kind = "http" /\ args.status = 200 /\ ~listed)
             => (r.place_id = "" /\ r.error = NotFoundMsg)
          /\ (args.kind = "exc" \/ args.status # 200)
             => /\ r.place_id = ""
                /\ r.error # NotFoundMsg
                /\ r.error[1] \in {"API error", "Exception during search"}
                /\ r.error[1] # NotFoundMsg[1]

\* C18 witness: a 200 answer without a 'places' key gave the not-found
\* message.
C18_Witness ==
    /\ pc = "returned"
    /\ args = Http(200, FALSE, <<>>, "")
    /\ result = <<[place_id |-> "", error |-> NotFoundMsg]>>

\* ----------------------------------------------- process_csv: the error log

\* The rows of the run that failed: a missing name or address, or a remote
\* call that failed.
FailedRows ==
    {i \in 1..Len(rowcalls) :
        \/ BlankIdent(orig[i].name) \/ BlankIdent(orig[i].addr)
        \/ \E k \in 1..Len(rowcalls[i]) : CallFailed(rowcalls[i][k])}

\* C19: after a process_csv run, whatever error_log held before, error_log
\* has exactly one ErrorRecord for each row that failed in the run and none
\* for any other row or from an earlier run, in ascending row order, each
\* with the row's 1-based data position plus 1 as its ordinal and the row's
\* name and address.
C19_ErrorLogOfThisRun ==
    pc = "done"
    => /\ Len(rowcalls) = Len(orig)
       /\ Len(error_log) = Cardinality(FailedRows)
       /\ \A k \in 1..Len(error_log) :
            /\ error_log[k].row - 1 \in FailedRows
            /\ error_log[k].business_name = orig[error_log[k].row - 1].name
            /\ error_log[k].business_address = orig[error_log[k].row - 1].addr
            /\ error_log[k].error # NoError
       /\ \A k, m \in 1..Len(error_log) : k < m => error_log[k].row < error_log[m].row

\* C19 witness: of two rows the first had no name and the second's find
\* request failed; the log has the ordinals 2 and 3.
C19_Witness ==
    /\ pc = "done"
    /\ Len(orig) = 2
    /\ IsNa(orig[1].name)
    /\ Len(rowcalls[2]) = 2 /\ rowcalls[2][2] = Call("find", ApiErr(403, "quota"))
    /\ Len(error_log) = 2
    /\ error_log[1].row = 2 /\ error_log[1].error = MissingMsg
    /\ error_log[2].row = 3 /\ error_log[2].error = <<"API error", "quota">>

\* ------------------------------------------ process_csv: column resolution

\* C20: when neither 'Business Name' nor 'Company Name' resolves, or neither
\* 'Business Address' nor 'Company Address', process_csv stops before any
\* row is processed: no remote call, no ErrorRecord, no output table and no
\* audit file.
C20_AbortBeforeRows ==
    (/\ pc # "start"
     /\ \/ \A a \in {HBusinessName, HCompanyName} : find_column(columns, a) = 0
        \/ \A a \in {HBusinessAddress, HCompanyAddress} : find_column(columns, a) = 0)
    => /\ pc = "aborted"
       /\ idx = 1 /\ rowcalls = <<>>
       /\ error_log = <<>>
       /\ saved = NoTable /\ audit = <<>> /\ writes = <<>>
       /\ df = orig

\* C20 witness: a two-row file with a name column and no address column was
\* given up.
C20_Witness ==
    /\ pc = "aborted"
    /\ columns = <<HCompanyName, Chars("Phone Number")>>
    /\ Len(df) = 2
    /\ df[1].name = Txt(Chars("Al"))
    /\ writes = <<>>

\* ------------------------------------------- process_csv: the written table

\* The review headers that do not resolve to a header of cols.
Unresolved(cols) ==
    SelectSeq(<<HRating, HCount, HMapsUrl>>, LAMBDA h : find_column(cols, h) = 0)

\* C21: from before the first row is handled until the table is written, the
\* table has the input's columns followed by one column for each review field
\* that did not resolve; the written table has these columns and the input's
\* rows in the input's order (the rows no request was made for exactly as
\* they were read); a second run over the written table adds no column.
C21_ColumnsAddedOnce ==
    /\ pc \in {"rows", "done"} => columns = orig_columns \o Unresolved(orig_columns)
    /\ pc = "done" =>
         /\ saved.cols = orig_columns \o Unresolved(orig_columns)
         /\ Len(saved.rows) = Len(orig)
         /\ \A i \in 1..Len(orig) :
              /\ saved.rows[i].name = orig[i].name
              /\ saved.rows[i].addr = orig[i].addr
              /\ rowcalls[i] = <<>> => saved.rows[i] = orig[i]
    /\ (first # <<>> /\ pc \in {"rows", "done"}) => columns = first[1].saved.cols

\* A file with a rating column under another spelling and one row that
\* failed gets the two other columns in the first run and none in the second.
C21_Witness ==
    /\ pc = "done" /\ first # <<>>
    /\ first[1].columns = <<HCompanyName, HCompanyAddress, Chars("google_review_rating")>>
    /\ Len(first[1].error_log) = 1
    /\ saved.cols = first[1].columns \o <<HCount, HMapsUrl>>
    /\ Len(saved.rows) = 1

\* What a run that returned has written: the table as the loop left it, first;
\* then error_log.csv with the entries of error_log, if there are any.
SavedAll ==
    /\ saved = [cols |-> columns, rows |-> df]
    /\ Len(writes) >= 1 /\ writes[1] = "output"
    /\ IF error_log # <<>>
       THEN writes = <<"output", "error_log">> /\ audit = error_log
       ELSE writes = <<"output">> /\ audit = <<>>

\* C22: a run that is in the row loop reaches its end, whatever the remote
\* answers are; at its end the output table has been written, and after it
\* the audit file if and only if error_log is not empty, with one entry for
\* each ErrorRecord.
C22_RunCompletesAndSaves ==
    /\ [](pc = "done" => SavedAll)
    /\ (pc = "rows") ~> (pc = "done")

\* A run with two failed rows wrote the table and then two audit entries.
C22_Witness ==
    /\ pc = "done" /\ Len(error_log) = 2 /\ audit = error_log
    /\ \E i \in 1..Len(rowcalls) : Len(rowcalls[i]) = 3
    /\ writes = <<"output", "error_log">>

\* ------------------------------------------------ process_csv: a second run

\* In the first run a lookup was made for row i and no ErrorRecord was
\* recorded for it.
FetchedWithoutError(i) ==
    /\ first[1].rowcalls[i] # <<>>
    /\ \A k \in 1..Len(first[1].error_log) : first[1].error_log[k].row # i + 1

\* The answer to the detail request of row i in the first run had every field
\* the request asked for: the URL, and for the full fetch rating and count.
AnswerHadFields(i) ==
    LET calls == first[1].rowcalls[i]
        last == calls[Len(calls)]
    IN /\ ~IsNa(last.resp.url)
       /\ last.op = "details" => ~IsNa(last.resp.rating) /\ ~IsNa(last.resp.count)

\* C30 as stated: every row the first run fetched without an error is taken
\* as complete by a second run over the saved output, which makes no call
\* for it.
C30_FetchedRowComplete ==
    first # <<>> =>
        \A i \in 1..Len(rowcalls) :
            FetchedWithoutError(i) => rowcalls[i] = <<>> /\ skipped_complete >= 1

\* C30 amended: this holds for the rows whose detail answer had every field
\* that was asked for.
C30_FetchedRowWithFieldsComplete ==
    first # <<>> =>
        \A i \in 1..Len(rowcalls) :
            (FetchedWithoutError(i) /\ AnswerHadFields(i))
            => rowcalls[i] = <<>> /\ skipped_complete >= 1

\* A row fully fetched in the first run is skipped as complete in the second.
C30_Witness ==
    /\ first # <<>> /\ pc = "done" /\ Len(rowcalls) = 1
    /\ FetchedWithoutError(1) /\ AnswerHadFields(1)
    /\ first[1].rowcalls[1][3].op = "details"
    /\ IsNa(first[1].orig[1].rating)
    /\ rowcalls[1] = <<>> /\ skipped_complete = 1 /\ error_log = <<>>

(***************************************************************************)
(* Remote calls and their timeouts                                         *)
(***************************************************************************)

\* Calls made in one explored run.
MaxCalls == 2

\* Seconds a call is followed while no answer arrives.
MaxWait == 12

\* Config.REQUEST_TIMEOUT, in seconds.
REQUEST_TIMEOUT == 10

\* The default of the timeout parameter of WebsiteEnricher.fetch_website.
FETCH_TIMEOUT == 10

\* The timeout keyword every remote call of main.py is made with, <<>> when
\* the call passes none: the find-id request (line 272), the detail request
\* (307), the URL-only detail request (378), a search page request (431),
\* the website fetch (111, called by enrich_row without a timeout argument)
\* and litellm.completion (197-203: model, messages, api_key, max_tokens,
\* temperature).
TimeoutArg ==
    [site \in {"find_id", "details", "url_only", "search_page", "website", "completion"} |->
        CASE site \in {"find_id", "details", "url_only", "search_page"} -> <<REQUEST_TIMEOUT>>
          [] site = "website" -> <<FETCH_TIMEOUT>>
          [] site = "completion" -> <<>>]

InitCalls ==
    /\ pc = "calls"
    /\ inflight = NoCall
    /\ waited = 0
    /\ returned = <<>>
    /\ CsvIdle
    /\ SearchIdle
    /\ AppendIdle
    /\ StagesIdle
    /\ PureIdle

\* The pipeline issues one of its remote calls and waits for it: calls are
\* made one at a time.
RemoteCall ==
    /\ pc = "calls" /\ inflight = NoCall /\ Len(returned) < MaxCalls
    /\ \E site \in DOMAIN TimeoutArg :
         inflight' = [site |-> site, timeout |-> TimeoutArg[site]]
    /\ waited' = 0
    /\ UNCHANGED <<pc, returned, csvVars, searchVars, appendVars, stageVars, pureVars>>

\* Another second passes without an answer; a call made with a timeout is
\* not waited for beyond it.
SecondPasses ==
    /\ inflight # NoCall /\ waited < MaxWait
    /\ inflight.timeout # <<>> => waited < inflight.timeout[1]
    /\ waited' = waited + 1
    /\ UNCHANGED <<pc, inflight, returned, csvVars, searchVars, appendVars, stageVars,
                   pureVars>>

\* The remote side answers, or the connection fails: the call returns.
AnswerArrives ==
    /\ inflight # NoCall
    /\ returned' = Append(returned, [site |-> inflight.site, how |-> "answer"])
    /\ inflight' = NoCall
    /\ waited' = 0
    /\ UNCHANGED <<pc, csvVars, searchVars, appendVars, stageVars, pureVars>>

\* The timeout the call was made with is over: the library raises, and the
\* caller's except clause turns it into the row's error.
TimeoutRaised ==
    /\ inflight # NoCall
    /\ inflight.timeout # <<>> /\ waited = inflight.timeout[1]
    /\ returned' = Append(returned, [site |-> inflight.site, how |-> "timeout"])
    /\ inflight' = NoCall
    /\ waited' = 0
    /\ UNCHANGED <<pc, csvVars, searchVars, appendVars, stageVars, pureVars>>

NextCalls == RemoteCall \/ SecondPasses \/ AnswerArrives \/ TimeoutRaised

SpecCalls == InitCalls /\ [][NextCalls]_vars

\* C24: every remote call is made with a timeout, and no call is waited for
\* beyond it.
C24_EveryCallHasTimeout ==
    inflight # NoCall =>
        /\ inflight.timeout # <<>>
        /\ waited <= inflight.timeout[1]

\* The calls other than the text-generation call are made with a timeout of
\* ten seconds and return within it.
C24_RequestsHaveTimeout ==
    (inflight # NoCall /\ inflight.site # "completion") =>
        /\ inflight.timeout = <<10>>
        /\ waited <= 10

====
